---- MODULE Spec2Model ----
(***************************************************************************)
(* Position pipeline of the orchestrator service: the execute_order task,  *)
(* PositionManager.process, OrderExecutor.execute_order against the MCP    *)
(* gateway, and the per-pair state of TakeProfitManager and                *)
(* TrailingStopManager.                                                    *)
(*                                                                         *)
(* Prices are integers in cents (1/100 of the quote currency); every tick  *)
(* price is a whole multiple of 100 cents, so price * (100 - d) / 100 is   *)
(* computed without remainder and round(x, 2) of the source is exact.      *)
(* Position sizes and amounts are integers in 1e-6 units, the precision    *)
(* of round(amount, 6).  Percentages are integers (2 stands for 0.02).     *)
(***************************************************************************)
EXTENDS Integers, Sequences, FiniteSets, TLC

\* Python None in a string-valued field, and in a numeric field.
None == "None"
NoneNum == 0 - 1

\* ------------------------------------------------------------------------
\* Bounds of the model
\* ------------------------------------------------------------------------
MaxRetriesCfg == 2
MinTick == 197
MaxTick == 203
MaxClock == 2

Pairs == {"BTC/USDT", "ETH/USDT"}
Actions == {"buy", "sell"}

\* max_retries of the @celery_app.task decorator of execute_order
TaskMaxRetries == 3

\* Python truthiness of an optional number (None and 0 are falsy) and of an
\* optional string (None and "" are falsy).
Truthy(x) == x # NoneNum /\ x # 0
TruthyStr(s) == s # None /\ s # ""

\* round(n / d, 0) for n >= 0, d > 0: ties go to the even neighbour
RoundHalfEven(n, d) ==
    LET q == n \div d
        r == n % d
    IN  IF 2 * r < d THEN q
        ELSE IF 2 * r > d THEN q + 1
        ELSE IF q % 2 = 0 THEN q ELSE q + 1

VARIABLES
    cfg,              \* PositionManager config: enable_dry_run, enable_trailing_stop, max_retries
    tsCfg,            \* TrailingStopManager defaults: trailing_distance_pct, activation_profit_pct
    active_targets,   \* TakeProfitManager.active_targets: pair -> list of targets
    active_stops,     \* TrailingStopManager.active_stops: pair -> stop_config
    entry,            \* entry point of the running call: "task", "process" or None
    pc,               \* position of the running call
    risk_decision,    \* argument of the running call
    retries,          \* self.request.retries of the task
    attempt,          \* loop variable of execute_order
    gw,               \* the create_order request in flight: None, "sent", "placed", "failed"
    createSent,       \* create_order requests sent by the running execute_order call
    ordersPlaced,     \* orders the gateway placed for the running execute_order call
    failures,         \* create_order attempts of the running call that raised
    lastError,        \* str(e) of the latest exception caught in the retry loop
    dryAnswer,        \* answer of the dry-run validation: None, "valid", "invalid", "error", "malformed"
    executorCalls,    \* calls of order_executor.execute_market_order by the running call
    execution_result, \* what execute_order handed to process
    result,           \* what PositionManager.process returned
    taskResult,       \* what the execute_order task returned
    pre_targets,      \* active_targets when the running call began
    pre_stops,        \* active_stops when the running call began
    lastOp,           \* the manager operation performed by the latest step, with its arguments
    tsRet,            \* return value of the latest update_trailing_stop
    tsInit,           \* pair -> initial_stop_loss given to the latest setup_trailing_stop
    tsReached,        \* pair -> whether an update price has reached activation_price since setup
    tpRet,            \* indices of the targets returned by the latest check_take_profit_hits
    tpReturned,       \* pair -> per target, how often it was returned as newly hit since setup
    markRet,          \* return value of the latest mark_target_executed
    now,              \* datetime.utcnow() as a logical clock
    actions_taken,    \* result["actions_taken"] of the latest update_position
    riskCfg,          \* RiskAgent config: use_kelly, daily_loss_limit_pct, stop_loss_method
    risk_call,        \* the latest call of the RiskAgent or its RiskChecker, with its arguments
    risk_ret,         \* what that call returned
    sigCfg,           \* SignalAgent config: fusion_method, min_confidence, enabled indicators
    signal_call,      \* the latest call of the signal stage, with its arguments
    indicator_signals,\* the indicator signals that call computed or was given
    signal_ret        \* what that call returned

vars == << cfg, tsCfg, active_targets, active_stops, entry, pc, risk_decision,
           retries, attempt, gw, createSent, ordersPlaced, failures, lastError,
           dryAnswer, executorCalls, execution_result, result, taskResult,
           pre_targets, pre_stops, lastOp, tsRet, tsInit, tsReached, tpRet,
           tpReturned, markRet, now, actions_taken, riskCfg, risk_call,
           risk_ret, sigCfg, signal_call, indicator_signals, signal_ret >>

callVars == << entry, pc, risk_decision, retries, attempt, gw, createSent,
               ordersPlaced, failures, lastError, dryAnswer, executorCalls,
               execution_result, result, taskResult, pre_targets, pre_stops >>

ghostVars == << lastOp, tsRet, tsInit, tsReached, tpRet, tpReturned, markRet, now >>

\* what update_position returns
updateVars == << actions_taken >>

\* the RiskAgent
riskVars == << riskCfg, risk_call, risk_ret >>

\* the SignalAgent
signalVars == << sigCfg, signal_call, indicator_signals, signal_ret >>

\* the variables that no step of the position stage and no direct call of a
\* manager assigns
otherVars == << updateVars, riskVars, signalVars >>

\* ------------------------------------------------------------------------
\* TakeProfitManager
\* ------------------------------------------------------------------------

\* One target as setup_take_profit_levels builds it.  executed_at and
\* order_id are None until mark_target_executed sets them.
NewTarget(position_size, level) ==
    [ price          |-> level.price,
      allocation_pct |-> level.allocation,
      amount         |-> RoundHalfEven(position_size * level.allocation, 100),
      hit            |-> FALSE,
      executed_at    |-> NoneNum,
      order_id       |-> None ]

\* active_targets after setup_take_profit_levels(pair, position_size, levels)
SetupTakeProfitLevels(targets, pair, position_size, levels) ==
    IF Len(levels) = 0
    THEN targets
    ELSE [ p \in (DOMAIN targets) \cup {pair} |->
             IF p = pair
             THEN [ i \in 1..Len(levels) |-> NewTarget(position_size, levels[i]) ]
             ELSE targets[p] ]

\* ------------------------------------------------------------------------
\* TrailingStopManager
\* ------------------------------------------------------------------------

\* activation_price of setup_trailing_stop: any action other than "buy" is
\* treated as a short position
ActivationPrice(entry_price, action, activation_profit) ==
    IF action = "buy"
    THEN (entry_price * (100 + activation_profit)) \div 100
    ELSE (entry_price * (100 - activation_profit)) \div 100

NewStopConfig(pair, entry_price, action, initial_stop_loss) ==
    [ pair                  |-> pair,
      entry_price           |-> entry_price,
      action                |-> action,
      current_stop          |-> initial_stop_loss,
      highest_price         |-> IF action = "buy" THEN entry_price ELSE NoneNum,
      lowest_price          |-> IF action = "sell" THEN entry_price ELSE NoneNum,
      trailing_distance_pct |-> tsCfg.trailing_distance_pct,
      activation_price      |-> ActivationPrice(entry_price, action,
                                                tsCfg.activation_profit_pct),
      activated             |-> FALSE,
      updates               |-> 0 ]

\* active_stops after setup_trailing_stop(pair, entry_price, action, initial_stop_loss)
SetupTrailingStop(stops, pair, entry_price, action, initial_stop_loss) ==
    [ p \in (DOMAIN stops) \cup {pair} |->
        IF p = pair
        THEN NewStopConfig(pair, entry_price, action, initial_stop_loss)
        ELSE stops[p] ]

\* What update_trailing_stop returns: None, or the dict of an adjusted stop
TsNone == [ kind |-> "None", updated |-> FALSE, old_stop |-> NoneNum, new_stop |-> NoneNum ]
TsUpdated(old_stop, new_stop) ==
    [ kind |-> "dict", updated |-> TRUE, old_stop |-> old_stop, new_stop |-> new_stop ]

\* Activates that takes every price for an activating one
Activates_Always(sc, current_price) == TRUE

\* the activation test of update_trailing_stop
Activates(sc, current_price) ==
    \/ sc.action = "buy" /\ current_price >= sc.activation_price
    \/ sc.action = "sell" /\ current_price <= sc.activation_price

\* Tighter that lets every candidate through
Tighter_Always(action, new_stop, current_stop) == TRUE

\* `if new_stop > stop_config["current_stop"]` (buy), `<` (sell)
Tighter(action, new_stop, current_stop) ==
    IF action = "buy" THEN new_stop > current_stop ELSE new_stop < current_stop

\* TrailingLevel that trails the entry price instead of the current price
TrailingLevel_FromEntry(sc, current_price) ==
    IF sc.action = "buy"
    THEN (sc.entry_price * (100 - sc.trailing_distance_pct)) \div 100
    ELSE (sc.entry_price * (100 + sc.trailing_distance_pct)) \div 100

\* current_price * (1 - trailing_distance_pct) for buy, (1 + ...) for sell
TrailingLevel(sc, current_price) ==
    IF sc.action = "buy"
    THEN (current_price * (100 - sc.trailing_distance_pct)) \div 100
    ELSE (current_price * (100 + sc.trailing_distance_pct)) \div 100

\* whether current_price is a new extreme of the position
NewExtreme(sc, current_price) ==
    IF sc.action = "buy"
    THEN sc.highest_price = NoneNum \/ current_price > sc.highest_price
    ELSE sc.lowest_price = NoneNum \/ current_price < sc.lowest_price

\* update_trailing_stop on the stop_config of a known pair: the stop_config
\* it leaves and the value it returns
UpdateStopConfig(sc, current_price) ==
    LET activated == sc.activated \/ Activates(sc, current_price)
        sc1 == [ sc EXCEPT !.activated = activated ]
        sc2 == IF sc.action = "buy"
               THEN [ sc1 EXCEPT !.highest_price = current_price ]
               ELSE [ sc1 EXCEPT !.lowest_price = current_price ]
        new_stop == TrailingLevel(sc, current_price)
    IN  IF ~activated
        THEN [ config |-> sc1, ret |-> TsNone ]
        ELSE IF ~NewExtreme(sc, current_price)
        THEN [ config |-> sc1, ret |-> TsNone ]
        ELSE IF ~Tighter(sc.action, new_stop, sc.current_stop)
        THEN [ config |-> sc2, ret |-> TsNone ]
        ELSE [ config |-> [ sc2 EXCEPT !.current_stop = new_stop,
                                       !.updates = sc.updates + 1 ],
               ret |-> TsUpdated(sc.current_stop, new_stop) ]

\* Without that empties the whole dict
Without_All(d, pair) == [ p \in {} |-> d[p] ]

\* a dict without the key pair (`del d[pair]`)
Without(d, pair) == [ p \in (DOMAIN d) \ {pair} |-> d[p] ]

\* ------------------------------------------------------------------------
\* Risk decisions handed to the position stage
\* ------------------------------------------------------------------------

\* take_profit_levels as StopLossCalculator emits them for two targets
TwoLevelsBuy == << [price |-> 20200, allocation |-> 60], [price |-> 20300, allocation |-> 40] >>

Decision(kind, approved, pair, action, position_size, entry_price, stop_loss, levels) ==
    [ kind |-> kind, approved |-> approved, pair |-> pair, action |-> action,
      position_size |-> position_size, entry_price |-> entry_price,
      stop_loss |-> stop_loss, take_profit_levels |-> levels ]

\* risk_decision is None, or {} (every .get answers None)
NoDecision == Decision("None", None, None, None, NoneNum, NoneNum, NoneNum, << >>)
EmptyDecision == Decision("empty", None, None, None, NoneNum, NoneNum, NoneNum, << >>)

\* The pair the modelled decisions trade
DecisionPairs == {"BTC/USDT"}

\* Decisions the Risk Agent did not approve (approved false, or absent)
UnapprovedDecisions ==
    { Decision("dict", a, "BTC/USDT", "buy", 1000, 20000, 19850, TwoLevelsBuy) :
        a \in {"False", None} }

\* Approved decisions: every combination of the fields process validates
\* (pair, action, position_size), the other fields present ...
CoreDecisions ==
    { Decision("dict", "True", p, act, size, 20000, 19850, TwoLevelsBuy) :
        p \in DecisionPairs \cup {None},
        act \in {"buy", "sell", "hold", None}, size \in {NoneNum, 0, 1000} }

\* ... and for the decisions that pass validation, every combination of the
\* optional fields (entry_price, stop_loss, take_profit_levels).
FullDecisions ==
    { Decision("dict", "True", p, act, 1000, e, sl, lv) :
        p \in DecisionPairs, act \in Actions, e \in {NoneNum, 20000},
        sl \in {NoneNum, 19850}, lv \in {<< >>, TwoLevelsBuy} }

Decisions ==
    {NoDecision, EmptyDecision} \cup UnapprovedDecisions \cup CoreDecisions
        \cup FullDecisions

\* ------------------------------------------------------------------------
\* Results
\* ------------------------------------------------------------------------

\* What execute_order hands back: a result dict, None (the loop ended
\* without a return) or a raised exception.
ExecResult(kind, success, status, order_id, att, error) ==
    [ kind |-> kind, success |-> success, status |-> status,
      order_id |-> order_id, attempt |-> att, error |-> error ]

NoExecResult == ExecResult(None, FALSE, None, NoneNum, NoneNum, None)
ExecRejected == ExecResult("dict", FALSE, "rejected", NoneNum, NoneNum, None)
ExecExecuted(order_id, att) == ExecResult("dict", TRUE, "executed", order_id, att, None)
ExecFailed(att, error) == ExecResult("dict", FALSE, "failed", NoneNum, att, error)
ExecReturnedNone == ExecResult("NoneType", FALSE, None, NoneNum, NoneNum, None)
ExecRaised(error) == ExecResult("raised", FALSE, None, NoneNum, NoneNum, error)

\* What PositionManager.process and the task return.
Result(success, status, reason, order_id, carried, tp, ts) ==
    [ success |-> success, status |-> status, reason |-> reason,
      order_id |-> order_id, execution_result |-> carried,
      take_profit_config |-> tp, trailing_stop_config |-> ts ]

NoResult == Result(FALSE, None, None, NoneNum, NoExecResult, FALSE, FALSE)

\* PositionManager._create_rejection
CreateRejection(reason, carried) ==
    Result(FALSE, "rejected", reason, NoneNum, carried, FALSE, FALSE)

\* the task's own returns
TaskSkipped == Result(FALSE, "skipped", "Not approved by RiskAgent", NoneNum, NoExecResult, FALSE, FALSE)
TaskFailed == Result(FALSE, "failed", "Failed to execute order after retries", NoneNum, NoExecResult, FALSE, FALSE)

\* ------------------------------------------------------------------------
\* PositionManager.process, input validation
\* ------------------------------------------------------------------------

\* RejectionReason without the `action not in ["buy", "sell"]` test
RejectionReason_NoActionCheck(d) ==
    IF d.kind # "dict" THEN "Invalid input: missing risk_decision"
    ELSE IF d.approved # "True" THEN "Trade not approved by RiskAgent"
    ELSE IF ~(TruthyStr(d.pair) /\ TruthyStr(d.action) /\ Truthy(d.position_size))
         THEN "Missing required order fields"
    ELSE ""

\* The rejection reason of the validation at the head of process, "" when
\* the decision passes.
RejectionReason(d) ==
    IF d.kind # "dict" THEN "Invalid input: missing risk_decision"
    ELSE IF d.approved # "True" THEN "Trade not approved by RiskAgent"
    ELSE IF ~(TruthyStr(d.pair) /\ TruthyStr(d.action) /\ Truthy(d.position_size))
         THEN "Missing required order fields"
    ELSE IF d.action \notin {"buy", "sell"} THEN "Invalid action"
    ELSE ""

\* ------------------------------------------------------------------------
\* OrderExecutor.execute_order
\* ------------------------------------------------------------------------

\* DryRunRejects looking only at whether the request raised
DryRunRejects_RaisedOnly(answer) == answer = "error"

\* `if not dry_run_result["valid"]`, on what _dry_run_validation returns: the
\* gateway's answer, or valid=False when the request raised
DryRunRejects(answer) == answer \in {"invalid", "error"}

\* `for attempt in range(self.max_retries)`
LoopRuns(att, max_retries) == att < max_retries

\* IsFinalAttempt one attempt late
IsFinalAttempt_OffByOne(att, max_retries) == att = max_retries

\* `if attempt == self.max_retries - 1`
IsFinalAttempt(att, max_retries) == att = max_retries - 1

NoOp(name) ==
    [ op |-> name, pair |-> None, price |-> NoneNum, action |-> None, order_id |-> None ]

\* ------------------------------------------------------------------------
\* RiskAgent: sizing, levels, risk checks.  Money is in dollars unless a
\* name says cents; a percentage rounded to two places is in hundredths of
\* a percent (bp); position sizes are in 1e-6 units; risk scores and
\* confidences in thousandths; Kelly fractions in 1e-4.
\* ------------------------------------------------------------------------

\* the settings of risk_tasks.py and the defaults of the components
AccountBalance == 10000
RiskPerTradePct == 2
AtrMultiplier == 2
MinPositionSize == 1000
MaxPositionSize == 1000000
MaxPositionValueBp == 2000
MaxOpenTrades == 5
MaxExposureBp == 5000
SafeKelly == 1250
MaxKellyFraction == 2500
RiskRewardRatio == 2

\* RiskAgent config: use_kelly, daily_loss_limit_pct (bp), stop_loss_method
RiskConfig(use_kelly, daily_loss_limit, stop_loss_method) ==
    [ use_kelly |-> use_kelly, daily_loss_limit |-> daily_loss_limit,
      stop_loss_method |-> stop_loss_method ]

TaskRiskConfig == RiskConfig(FALSE, 500, "atr")

DailyLossLimits == {0, 500}
RiskConfigs ==
    { RiskConfig(k, l, m) : k \in BOOLEAN, l \in DailyLossLimits,
                            m \in {"atr", "support_resistance"} }

RECURSIVE Gcd(_, _)
Gcd(a, b) == IF b = 0 THEN a ELSE Gcd(b, a % b)
Lcm(a, b) == (a \div Gcd(a, b)) * b
Abs(x) == IF x < 0 THEN 0 - x ELSE x
Min(a, b) == IF a < b THEN a ELSE b
Max(a, b) == IF a > b THEN a ELSE b

\* round(x) of the (possibly negative) quotient n / d, d > 0
RoundSigned(n, d) == IF n < 0 THEN 0 - RoundHalfEven(0 - n, d) ELSE RoundHalfEven(n, d)

\* PositionSizer.calculate_position_size(current_price, atr)
CalculatePositionSize(current_price, atr) ==
    LET risk_amount == (AccountBalance * RiskPerTradePct) \div 100
        stop_distance == atr * AtrMultiplier
        raw == IF stop_distance > 0
               THEN RoundHalfEven(risk_amount * 1000000, stop_distance)
               ELSE MinPositionSize
        position_size == Max(MinPositionSize, Min(raw, MaxPositionSize))
    IN  [ position_size |-> position_size,
          position_value_cents |-> RoundHalfEven(position_size * current_price, 10000),
          adjusted_position_size |-> NoneNum,
          kelly_used |-> FALSE ]

\* KellyCriterion.adjust_for_confidence(safe_kelly, confidence)["adjusted_kelly"]
AdjustedKelly(confidence) ==
    Min(RoundHalfEven(SafeKelly * confidence, 1000), MaxKellyFraction)

\* RiskAgent._apply_kelly(base_position_size, confidence)["adjusted_position_size"]:
\* base_position_size * adjusted_kelly / 0.5
KellyAdjustedSize(base_position_size, confidence) ==
    RoundHalfEven(base_position_size * AdjustedKelly(confidence), 5000)

\* position_result.update(kelly_adjustment): the keys of the adjustment are
\* added to the sizing result, whose other keys stay as they are
ApplyKelly(position_result, confidence) ==
    [ position_result EXCEPT
        !.adjusted_position_size = KellyAdjustedSize(position_result.position_size,
                                                     confidence),
        !.kelly_used = TRUE ]

\* calculate_complete_levels: the stop by the configured method, then the
\* two take-profit targets; an error result of the stop method is returned
\* as it is
NoLevels == [ kind |-> "error", stop_price |-> NoneNum, targets |-> << >> ]
CalculateLevels(method, entry_price, atr, action, support, resistance) ==
    LET entry_cents == entry_price * 100
        level == IF action = "buy" THEN support ELSE resistance
        stop_price ==
            IF method = "support_resistance"
            THEN IF action = "buy"
                 THEN RoundHalfEven(level * 100 * 995, 1000)
                 ELSE RoundHalfEven(level * 100 * 1005, 1000)
            ELSE IF action = "buy"
                 THEN entry_cents - atr * AtrMultiplier * 100
                 ELSE entry_cents + atr * AtrMultiplier * 100
        risk == Abs(entry_cents - stop_price)
        reward(i) == (risk * i * RiskRewardRatio * i) \div 2
        target(i, allocation) ==
            [ price |-> IF action = "buy" THEN entry_cents + reward(i) ELSE entry_cents - reward(i),
              allocation |-> allocation ]
    IN  IF method = "support_resistance" /\ level = NoneNum
        THEN NoLevels
        ELSE [ kind |-> "ok", stop_price |-> stop_price,
               targets |-> << target(1, 60), target(2, 40) >> ]

\* in binary64, 0.05 * 0.8 is 0.04000000000000001, one step above the 0.04
\* that a loss of exactly 80% of the 5% limit divides to
EightyPctRoundsUp(limit) == limit = 500

\* `daily_loss_pct >= max_loss_pct * 0.8`
NearLimit(loss, account_balance, limit) ==
    \/ loss * 100000 > limit * 8 * account_balance
    \/ /\ loss * 100000 = limit * 8 * account_balance
       /\ ~EightyPctRoundsUp(limit)

\* `daily_loss_pct >= max_loss_pct`
LimitBreached(loss, account_balance, limit) ==
    loss * 10000 >= limit * account_balance

\* RiskChecker.check_daily_loss(daily_pnl, account_balance)
CheckDailyLoss(limit, daily_pnl, account_balance) ==
    LET loss == IF daily_pnl < 0 THEN Abs(daily_pnl) ELSE 0
        breached == LimitBreached(loss, account_balance, limit)
    IN  [ check |-> "daily_loss",
          approved |-> ~breached,
          warned |-> breached \/ NearLimit(loss, account_balance, limit),
          value |-> RoundHalfEven(loss * 10000, account_balance),
          limit |-> limit ]

\* RiskChecker.check_position_size(position_size, position_value, account_balance)
CheckPositionSize(position_size, position_value_cents, account_balance) ==
    [ check |-> "position_size",
      approved |-> /\ ~(position_size > MaxPositionSize)
                   /\ ~(position_value_cents * 100 > MaxPositionValueBp * account_balance),
      warned |-> \/ position_size > MaxPositionSize
                 \/ position_value_cents * 100 > MaxPositionValueBp * account_balance,
      value |-> RoundHalfEven(position_value_cents * 100, account_balance),
      limit |-> MaxPositionValueBp ]

\* RiskChecker.check_open_trades(current_open_trades)
CheckOpenTrades(current_open_trades) ==
    [ check |-> "open_trades",
      approved |-> ~(current_open_trades >= MaxOpenTrades),
      warned |-> current_open_trades >= MaxOpenTrades,
      value |-> current_open_trades,
      limit |-> MaxOpenTrades ]

\* RiskChecker.check_total_exposure(current_exposure, new_position_value, account_balance)
CheckTotalExposure(current_exposure, position_value_cents, account_balance) ==
    LET total == current_exposure * 100 + position_value_cents
    IN  [ check |-> "total_exposure",
          approved |-> ~(total * 100 > MaxExposureBp * account_balance),
          warned |-> total * 1000 > MaxExposureBp * 9 * account_balance,
          value |-> RoundSigned(total * 100, account_balance),
          limit |-> MaxExposureBp ]

\* AllApproved that lets the open-trades check decide alone
AllApproved_OpenTradesOnly(checks) == checks[2].approved

\* all(check["approved"] for check in checks)
AllApproved(checks) == \A i \in DOMAIN checks : checks[i].approved

\* sum(risk_factors) / len(risk_factors), rounded to three places; the
\* factors are value / limit of each check, the position factor only when
\* its value is positive
RiskScore(checks) ==
    LET used == { i \in DOMAIN checks : i # 1 \/ checks[1].value > 0 }
        den == Lcm(Lcm(checks[1].limit, checks[2].limit),
                   Lcm(checks[3].limit, checks[4].limit))
        term(i) == IF i \in used THEN checks[i].value * (den \div checks[i].limit) ELSE 0
        num == term(1) + term(2) + term(3) + term(4)
    IN  RoundSigned(num * 1000, den * Cardinality(used))

\* RiskChecker.validate_trade; a limit of zero divides by zero
NoValidation == [ kind |-> "None", approved |-> FALSE, risk_score |-> NoneNum, checks |-> << >> ]
ValidationRaised == [ kind |-> "raised", approved |-> FALSE, risk_score |-> NoneNum, checks |-> << >> ]
ValidateTrade(limit, position_size, position_value_cents, account_balance, current_open_trades, daily_pnl, current_exposure) ==
    LET checks == << CheckPositionSize(position_size, position_value_cents, account_balance),
                     CheckOpenTrades(current_open_trades),
                     CheckDailyLoss(limit, daily_pnl, account_balance),
                     CheckTotalExposure(current_exposure, position_value_cents,
                                        account_balance) >>
    IN  IF \E i \in DOMAIN checks : checks[i].limit = 0
        THEN ValidationRaised
        ELSE [ kind |-> "dict", approved |-> AllApproved(checks),
               risk_score |-> RiskScore(checks), checks |-> checks ]

\* signal_data and candle_data as process looks at them
Signal(kind, action, confidence, support, resistance) ==
    [ kind |-> kind, action |-> action, confidence |-> confidence,
      support |-> support, resistance |-> resistance ]
Candle(kind, pair, frame, close, atr, open_trades, daily_pnl, exposure) ==
    [ kind |-> kind, pair |-> pair, frame |-> frame, close |-> close, atr |-> atr,
      current_open_trades |-> open_trades, daily_pnl |-> daily_pnl,
      current_exposure |-> exposure ]

\* What RiskAgent.process returns
RiskDecision(kind, approved, action, pair, entry_price, position_result, levels, validation, reason) ==
    [ kind |-> kind, approved |-> approved, action |-> action, pair |-> pair,
      entry_price |-> entry_price,
      position_size |-> position_result.position_size,
      position_value_cents |-> position_result.position_value_cents,
      kelly_size |-> position_result.adjusted_position_size,
      stop_loss |-> levels.stop_price,
      take_profit_levels |-> levels.targets,
      risk_score |-> IF kind = "rejection" THEN 1000 ELSE validation.risk_score,
      validation |-> validation, reason |-> reason ]

NoSizing == [ position_size |-> 0, position_value_cents |-> 0,
              adjusted_position_size |-> NoneNum, kelly_used |-> FALSE ]

\* RiskAgent._create_rejection(reason)
RiskRejection(reason) ==
    RiskDecision("rejection", FALSE, "hold", None, NoneNum, NoSizing, NoLevels, NoValidation, reason)

NoRiskDecision ==
    [ RiskRejection(None) EXCEPT !.kind = "None" ]

\* EarlyRejection without the test of the signal's action
EarlyRejection_TradesHold(signal, candle) ==
    IF signal.kind \in {"None", "empty"} \/ candle.kind \in {"None", "empty"}
    THEN "Invalid input data"
    ELSE IF candle.pair = None
    THEN "Missing pair in candle data"
    ELSE None

\* the tests of process before its try block: the reason of the rejection,
\* or None.  A signal without "action" counts as hold.
EarlyRejection(signal, candle) ==
    IF signal.kind \in {"None", "empty"} \/ candle.kind \in {"None", "empty"}
    THEN "Invalid input data"
    ELSE IF signal.action \in {None, "hold"}
    THEN "Signal action is hold"
    ELSE IF candle.pair = None
    THEN "Missing pair in candle data"
    ELSE None

\* RiskAgent.process(signal_data, candle_data)
RiskAgentProcess(rc, signal, candle) ==
    LET early == EarlyRejection(signal, candle)
        sized == CalculatePositionSize(candle.close, candle.atr)
        position_result ==
            IF rc.use_kelly /\ signal.confidence # NoneNum
            THEN ApplyKelly(sized, signal.confidence)
            ELSE sized
        levels == CalculateLevels(rc.stop_loss_method, candle.close, candle.atr,
                                  signal.action, signal.support, signal.resistance)
        validation == ValidateTrade(rc.daily_loss_limit, position_result.position_size,
                                    position_result.position_value_cents,
                                    AccountBalance, candle.current_open_trades,
                                    candle.daily_pnl, candle.current_exposure)
    IN  IF early # None THEN RiskRejection(early)
        ELSE IF candle.frame # "ok" THEN RiskRejection("Error processing risk")
        ELSE IF validation.kind = "raised" THEN RiskRejection("Error processing risk")
        ELSE IF levels.kind = "error" THEN RiskRejection("Error processing risk")
        ELSE RiskDecision("decision", validation.approved,
                          IF validation.approved THEN signal.action ELSE "hold",
                          candle.pair, candle.close * 100,
                          position_result,
                          levels, validation, None)

InitRiskAgent(rc) ==
    /\ riskCfg = rc
    /\ risk_call = [ op |-> "init", signal |-> Signal("None", None, NoneNum, NoneNum, NoneNum),
                     candle |-> Candle("None", None, None, NoneNum, NoneNum, 0, 0, 0) ]
    /\ risk_ret = NoRiskDecision

\* ------------------------------------------------------------------------
\* SignalAgent: indicators, fusion, confidence.  The indicator readings
\* (the last values of the computed columns) are in dollars; strengths,
\* confidences and factors are in thousandths.
\* ------------------------------------------------------------------------

\* self.indicators in insertion order
IndicatorOrder == << "ema", "rsi", "macd", "support_resistance" >>
IndicatorNames == { IndicatorOrder[i] : i \in DOMAIN IndicatorOrder }

\* metadata of an indicator signal, as far as the Risk Agent reads it:
\* nearest_support["price"] and nearest_resistance["price"], NoneNum when
\* the key is missing or None
Metadata(nearest_support, nearest_resistance) ==
    [ nearest_support |-> nearest_support, nearest_resistance |-> nearest_resistance ]
NoMetadata == Metadata(NoneNum, NoneNum)

IndicatorSignal(action, strength, reason, metadata) ==
    [ action |-> action, strength |-> strength, reason |-> reason, metadata |-> metadata ]

\* the answer of every indicator to a series that is too short
InsufficientData == IndicatorSignal("hold", 0, "Insufficient data", NoMetadata)

\* the except branch of generate_signals
ErrorSignal == IndicatorSignal("hold", 0, "Error", NoMetadata)

\* round(min(num / den * fnum / fden, 1.0), 3) when capped, else
\* round(num / den * fnum / fden, 3)
Strength(num, den, fnum, fden, capped) ==
    IF capped /\ num * fnum > den * fden
    THEN 1000
    ELSE RoundHalfEven(1000 * num * fnum, den * fden)

\* EMAIndicator defaults
EmaFastPeriod == 9
EmaSlowPeriod == 21
EmaSignalPeriod == 50

\* EmaMinLength that looks at the fast period only
EmaMinLength_FastOnly == EmaFastPeriod

\* max(self.fast_period, self.slow_period, self.signal_period)
EmaMinLength == Max(Max(EmaFastPeriod, EmaSlowPeriod), EmaSignalPeriod)

\* what EMAIndicator.generate_signal reads off the computed frame
EmaReading(fast_ema, slow_ema, fast_ema_prev, slow_ema_prev, signal_ema, close_price) ==
    [ fast_ema |-> fast_ema, slow_ema |-> slow_ema, fast_ema_prev |-> fast_ema_prev,
      slow_ema_prev |-> slow_ema_prev, signal_ema |-> signal_ema,
      close_price |-> close_price ]

\* EMAIndicator.generate_signal(df) for len(df) = n
EmaSignal(n, r) ==
    IF n < EmaMinLength THEN InsufficientData
    ELSE LET bullish_cross == r.fast_ema > r.slow_ema /\ r.fast_ema_prev <= r.slow_ema_prev
             bearish_cross == r.fast_ema < r.slow_ema /\ r.fast_ema_prev >= r.slow_ema_prev
             num == Min(Abs(r.fast_ema - r.slow_ema) * 100, r.close_price)
             den == r.close_price
             above_signal == r.close_price > r.signal_ema
             below_signal == r.close_price < r.signal_ema
         IN  IF bullish_cross /\ above_signal
             THEN IndicatorSignal("buy", Strength(num, den, 12, 10, TRUE),
                                  "Bullish EMA crossover", NoMetadata)
             ELSE IF bullish_cross
             THEN IndicatorSignal("buy", Strength(num, den, 7, 10, FALSE),
                                  "Bullish EMA crossover (weak)", NoMetadata)
             ELSE IF bearish_cross /\ below_signal
             THEN IndicatorSignal("sell", Strength(num, den, 12, 10, TRUE),
                                  "Bearish EMA crossover", NoMetadata)
             ELSE IF bearish_cross
             THEN IndicatorSignal("sell", Strength(num, den, 7, 10, FALSE),
                                  "Bearish EMA crossover (weak)", NoMetadata)
             ELSE IF r.fast_ema > r.slow_ema /\ above_signal
             THEN IndicatorSignal("hold", Strength(num, den, 3, 10, FALSE),
                                  "Bullish trend continues", NoMetadata)
             ELSE IF r.fast_ema < r.slow_ema /\ below_signal
             THEN IndicatorSignal("hold", Strength(num, den, 3, 10, FALSE),
                                  "Bearish trend continues", NoMetadata)
             ELSE IndicatorSignal("hold", Strength(num, den, 1, 1, FALSE),
                                  "No clear signal", NoMetadata)

\* RSIIndicator defaults
RsiPeriod == 14
RsiOverbought == 70
RsiOversold == 30
RsiExtremeOverbought == 80
RsiExtremeOversold == 20

\* self.period + 1
RsiMinLength == RsiPeriod + 1

RsiReading(rsi, rsi_prev) == [ rsi |-> rsi, rsi_prev |-> rsi_prev ]

\* RSIIndicator.generate_signal(df) for len(df) = n
RsiSignal(n, r) ==
    IF n < RsiMinLength THEN InsufficientData
    ELSE LET rsi == r.rsi
             zone == IF rsi < RsiExtremeOversold
                     THEN [ action |-> "buy", num |-> Min(RsiOversold - rsi, RsiOversold),
                            den |-> RsiOversold, reason |-> "RSI extremely oversold" ]
                     ELSE IF rsi < RsiOversold
                     THEN [ action |-> "buy", num |-> RsiOversold - rsi,
                            den |-> RsiOversold - RsiExtremeOversold,
                            reason |-> "RSI oversold" ]
                     ELSE IF rsi > RsiExtremeOverbought
                     THEN [ action |-> "sell",
                            num |-> Min(rsi - RsiOverbought, 100 - RsiOverbought),
                            den |-> 100 - RsiOverbought,
                            reason |-> "RSI extremely overbought" ]
                     ELSE IF rsi > RsiOverbought
                     THEN [ action |-> "sell", num |-> rsi - RsiOverbought,
                            den |-> RsiExtremeOverbought - RsiOverbought,
                            reason |-> "RSI overbought" ]
                     ELSE IF 45 <= rsi /\ rsi <= 55
                     THEN [ action |-> "hold", num |-> 0, den |-> 1,
                            reason |-> "RSI neutral" ]
                     ELSE IF rsi > 55
                     THEN [ action |-> "hold", num |-> (rsi - 50) * 3, den |-> 200,
                            reason |-> "RSI slightly bullish" ]
                     ELSE [ action |-> "hold", num |-> (50 - rsi) * 3, den |-> 200,
                            reason |-> "RSI slightly bearish" ]
             crossing_up_oversold == rsi > RsiOversold /\ r.rsi_prev <= RsiOversold
             crossing_down_overbought == rsi < RsiOverbought /\ r.rsi_prev >= RsiOverbought
         IN  IF crossing_up_oversold
             THEN IndicatorSignal("buy", Strength(zone.num, zone.den, 13, 10, TRUE),
                                  "RSI crossing up from oversold", NoMetadata)
             ELSE IF crossing_down_overbought
             THEN IndicatorSignal("sell", Strength(zone.num, zone.den, 13, 10, TRUE),
                                  "RSI crossing down from overbought", NoMetadata)
             ELSE IndicatorSignal(zone.action, Strength(zone.num, zone.den, 1, 1, FALSE),
                                  zone.reason, NoMetadata)

\* MACDIndicator defaults
MacdSlowPeriod == 26
MacdSignalPeriod == 9

\* self.slow_period + self.signal_period
MacdMinLength == MacdSlowPeriod + MacdSignalPeriod

MacdReading(macd, macd_signal, macd_prev, macd_signal_prev, close_price) ==
    [ macd |-> macd, macd_signal |-> macd_signal, macd_prev |-> macd_prev,
      macd_signal_prev |-> macd_signal_prev, close_price |-> close_price ]

\* MACDIndicator.generate_signal(df) for len(df) = n
MacdSignal(n, r) ==
    IF n < MacdMinLength THEN InsufficientData
    ELSE LET histogram == r.macd - r.macd_signal
             histogram_prev == r.macd_prev - r.macd_signal_prev
             bullish_cross == r.macd > r.macd_signal /\ r.macd_prev <= r.macd_signal_prev
             bearish_cross == r.macd < r.macd_signal /\ r.macd_prev >= r.macd_signal_prev
             \* min(abs(histogram) / close_price * 100 / 0.5, 1.0)
             num == Min(Abs(histogram) * 200, r.close_price)
             den == r.close_price
         IN  IF bullish_cross
             THEN IF r.macd > 0
                  THEN IndicatorSignal("buy", Strength(num, den, 13, 10, TRUE),
                                       "MACD bullish crossover (above zero line)", NoMetadata)
                  ELSE IndicatorSignal("buy", Strength(num, den, 9, 10, FALSE),
                                       "MACD bullish crossover (below zero line)", NoMetadata)
             ELSE IF bearish_cross
             THEN IF r.macd < 0
                  THEN IndicatorSignal("sell", Strength(num, den, 13, 10, TRUE),
                                       "MACD bearish crossover (below zero line)", NoMetadata)
                  ELSE IndicatorSignal("sell", Strength(num, den, 9, 10, FALSE),
                                       "MACD bearish crossover (above zero line)", NoMetadata)
             ELSE IF histogram > 0 /\ histogram_prev <= 0
             THEN IndicatorSignal("buy", Strength(num, den, 7, 10, FALSE),
                                  "MACD histogram turning positive", NoMetadata)
             ELSE IF histogram < 0 /\ histogram_prev >= 0
             THEN IndicatorSignal("sell", Strength(num, den, 7, 10, FALSE),
                                  "MACD histogram turning negative", NoMetadata)
             ELSE IF r.macd > r.macd_signal /\ histogram > histogram_prev
             THEN IndicatorSignal("hold", Strength(num, den, 4, 10, FALSE),
                                  "MACD bullish with increasing momentum", NoMetadata)
             ELSE IF r.macd < r.macd_signal /\ histogram < histogram_prev
             THEN IndicatorSignal("hold", Strength(num, den, 4, 10, FALSE),
                                  "MACD bearish with decreasing momentum", NoMetadata)
             ELSE IndicatorSignal("hold", 0, "MACD neutral", NoMetadata)

\* SupportResistanceIndicator default
SrLookbackPeriod == 50

\* one clustered level: (center, touches)
Level(price, strength) == [ price |-> price, strength |-> strength ]

\* the levels calculate() found, nearest first, and the last prices
SrReading(support_levels, resistance_levels, current_price, prev_close, current_high, current_low) ==
    [ support_levels |-> support_levels, resistance_levels |-> resistance_levels,
      current_price |-> current_price, prev_close |-> prev_close,
      current_high |-> current_high, current_low |-> current_low ]

\* `distance_pct < self.proximity_threshold / 2`, the threshold being 1.5%
SrNear(current_price, level_price) ==
    Abs(current_price - level_price) * 10000 < 75 * level_price

\* the least index of a set of indices, 0 for the empty set
FirstIndex(S) == IF S = {} THEN 0 ELSE CHOOSE i \in S : \A j \in S : i <= j

\* SupportResistanceIndicator.generate_signal(df) for len(df) = n: the first
\* support that the price bounced off or broke decides, then the first
\* resistance that rejected the price or was broken overrides it
SrSignal(n, r) ==
    IF n < SrLookbackPeriod THEN InsufficientData
    ELSE LET cur == r.current_price
             bounced(i) == /\ r.current_low <= r.support_levels[i].price
                           /\ cur > r.support_levels[i].price
             brokeBelow(i) == /\ r.prev_close > r.support_levels[i].price
                              /\ cur < r.support_levels[i].price
             s == FirstIndex({ i \in DOMAIN r.support_levels :
                                 /\ SrNear(cur, r.support_levels[i].price)
                                 /\ (bounced(i) \/ brokeBelow(i)) })
             rejected(i) == /\ r.current_high >= r.resistance_levels[i].price
                            /\ cur < r.resistance_levels[i].price
             brokeAbove(i) == /\ r.prev_close < r.resistance_levels[i].price
                              /\ cur > r.resistance_levels[i].price
             t == FirstIndex({ i \in DOMAIN r.resistance_levels :
                                 /\ SrNear(cur, r.resistance_levels[i].price)
                                 /\ (rejected(i) \/ brokeAbove(i)) })
             metadata ==
                 Metadata(IF Len(r.support_levels) > 0
                          THEN r.support_levels[1].price ELSE NoneNum,
                          IF Len(r.resistance_levels) > 0
                          THEN r.resistance_levels[1].price ELSE NoneNum)
         IN  IF t # 0
             THEN IF rejected(t)
                  THEN IndicatorSignal("sell",
                           Strength(r.resistance_levels[t].strength, 5, 1, 1, TRUE),
                           "Rejected at resistance", metadata)
                  ELSE IndicatorSignal("buy",
                           Strength(r.resistance_levels[t].strength, 5, 8, 10, TRUE),
                           "Broke above resistance", metadata)
             ELSE IF s # 0
             THEN IF bounced(s)
                  THEN IndicatorSignal("buy",
                           Strength(r.support_levels[s].strength, 5, 1, 1, TRUE),
                           "Bouncing off support", metadata)
                  ELSE IndicatorSignal("sell",
                           Strength(r.support_levels[s].strength, 5, 8, 10, TRUE),
                           "Broke below support", metadata)
             ELSE IndicatorSignal("hold", 0, "No clear S/R signal", metadata)

\* the length below which the indicator answers without computing
MinLength(name) ==
    CASE name = "ema" -> EmaMinLength
      [] name = "rsi" -> RsiMinLength
      [] name = "macd" -> MacdMinLength
      [] name = "support_resistance" -> SrLookbackPeriod

\* indicator.generate_signal(df)
GenerateSignal(name, n, reading) ==
    CASE name = "ema" -> EmaSignal(n, reading)
      [] name = "rsi" -> RsiSignal(n, reading)
      [] name = "macd" -> MacdSignal(n, reading)
      [] name = "support_resistance" -> SrSignal(n, reading)

\* ---- SignalFusion ----

\* weights of signal_tasks.py, the defaults of SignalFusion: 0.25 each
IndicatorWeight == 250

\* min_agreement = 0.6, in tenths
MinAgreementTenths == 6

\* score_to_action threshold 0.1, in thousandths
ScoreThreshold == 100

\* action_to_score
ActionToScore(action) ==
    IF action = "buy" THEN 1 ELSE IF action = "sell" THEN 0 - 1 ELSE 0

\* ScoreToAction without a dead band
ScoreToAction_NoThreshold(score_millionths) ==
    IF score_millionths >= 0 THEN "buy" ELSE "sell"

\* score_to_action(score): the score is in millionths
ScoreToAction(score_millionths) ==
    IF score_millionths > ScoreThreshold * 1000 THEN "buy"
    ELSE IF score_millionths < 0 - ScoreThreshold * 1000 THEN "sell"
    ELSE "hold"

\* the sum of the values given per indicator
SumValues(values) ==
    LET term(i) == IF IndicatorOrder[i] \in DOMAIN values
                   THEN values[IndicatorOrder[i]] ELSE 0
    IN  term(1) + term(2) + term(3) + term(4)

\* what a fusion method returns; fuse adds "indicators"
Fused(action, confidence, method) ==
    [ action |-> action, confidence |-> confidence, method |-> method ]

\* weighted_average_fusion(signals)
WeightedAverageFusion(signals) ==
    LET total_score ==
            SumValues([ name \in DOMAIN signals |->
                          ActionToScore(signals[name].action) * signals[name].strength
                              * IndicatorWeight ])
        total_strength ==
            SumValues([ name \in DOMAIN signals |-> signals[name].strength * IndicatorWeight ])
        len == Cardinality(DOMAIN signals)
    IN  Fused(ScoreToAction(total_score),
              IF len = 0 THEN 0 ELSE RoundHalfEven(total_strength, 1000 * len),
              "weighted_average")

\* the number of signals with the action
Votes(signals, action) ==
    Cardinality({ name \in DOMAIN signals : signals[name].action = action })

\* max(votes, key=votes.get) over {"buy": .., "sell": .., "hold": ..}: the
\* first of buy, sell, hold with the most votes
VoteWinner(signals) ==
    LET b == Votes(signals, "buy")
        s == Votes(signals, "sell")
        h == Votes(signals, "hold")
    IN  IF b >= s /\ b >= h THEN "buy"
        ELSE IF s >= h THEN "sell"
        ELSE "hold"

\* AgreementMet whatever the votes
AgreementMet_Always(max_votes, total_votes) == TRUE

\* not `agreement < self.min_agreement`
AgreementMet(max_votes, total_votes) ==
    ~(max_votes * 10 < MinAgreementTenths * total_votes)

\* majority_vote_fusion(signals)
MajorityVoteFusion(signals) ==
    LET len == Cardinality(DOMAIN signals)
        first == VoteWinner(signals)
        winner == IF AgreementMet(Votes(signals, first), len) THEN first ELSE "hold"
        weighted_votes ==
            SumValues([ name \in DOMAIN signals |->
                          IF signals[name].action = winner THEN signals[name].strength ELSE 0 ])
    IN  IF len = 0 THEN Fused("hold", 0, "majority_vote")
        ELSE Fused(winner, RoundHalfEven(weighted_votes, len),
                   "majority_vote")

\* conservative_fusion(signals)
ConservativeFusion(signals) ==
    LET len == Cardinality(DOMAIN signals)
        strengths == SumValues([ name \in DOMAIN signals |-> signals[name].strength ])
    IN  IF len = 0 THEN Fused("hold", 0, "conservative")
        ELSE IF \E a \in {"buy", "sell"} : \A name \in DOMAIN signals : signals[name].action = a
        THEN Fused((CHOOSE a \in {"buy", "sell"} :
                       \A name \in DOMAIN signals : signals[name].action = a),
                   RoundHalfEven(strengths, len), "conservative")
        ELSE Fused("hold", 0, "conservative")

\* aggressive_fusion(signals): max(..., key=strength) keeps the first of the
\* strongest signals
AggressiveFusion(signals) ==
    LET strongest ==
            FirstIndex({ i \in DOMAIN IndicatorOrder :
                           /\ IndicatorOrder[i] \in DOMAIN signals
                           /\ \A name \in DOMAIN signals :
                                 signals[name].strength <= signals[IndicatorOrder[i]].strength })
    IN  IF strongest = 0 THEN Fused("hold", 0, "aggressive")
        ELSE Fused(signals[IndicatorOrder[strongest]].action,
                   signals[IndicatorOrder[strongest]].strength, "aggressive")

FusionMethods == {"weighted_average", "majority_vote", "conservative", "aggressive"}

\* the indicator details fuse() attaches: action, strength and reason, and
\* no metadata
IndicatorDetails(signals) ==
    [ name \in DOMAIN signals |->
        [ action |-> signals[name].action, strength |-> signals[name].strength,
          reason |-> signals[name].reason ] ]

\* SignalFusion.fuse(signals); without signals the result has no "method"
Fuse(method, signals) ==
    LET fused == CASE method = "weighted_average" -> WeightedAverageFusion(signals)
                   [] method = "majority_vote" -> MajorityVoteFusion(signals)
                   [] method = "conservative" -> ConservativeFusion(signals)
                   [] method = "aggressive" -> AggressiveFusion(signals)
    IN  IF DOMAIN signals = {}
        THEN [ action |-> "hold", confidence |-> 0, method |-> None,
               indicators |-> IndicatorDetails(signals) ]
        ELSE [ action |-> fused.action, confidence |-> fused.confidence,
               method |-> fused.method, indicators |-> IndicatorDetails(signals) ]

\* ---- ConfidenceScorer ----

\* the normalised weights, in thousandths
StrengthWeight == 300
AgreementWeight == 350
VolatilityWeight == 200
VolumeWeight == 150

\* period of the volatility and volume factors
FactorPeriod == 20

\* the factors of a frame shorter than the period, and of no frame
NeutralFactor == 500

\* calculate_confidence(base_confidence, signals, df)["confidence"]; the
\* volatility and volume factors of the frame are given
CalculateConfidence(base_confidence, signals, volatility_factor, volume_factor) ==
    LET strength_factor == Max(0, Min(1000, base_confidence))
        len == Cardinality(DOMAIN signals)
        max_count == Max(Max(Votes(signals, "buy"), Votes(signals, "sell")),
                         Votes(signals, "hold"))
        \* agreement = agn / agd
        agn == IF len < 2 THEN 1 ELSE max_count
        agd == IF len < 2 THEN 2 ELSE len
    IN  RoundHalfEven(( strength_factor * StrengthWeight
                        + volatility_factor * VolatilityWeight
                        + volume_factor * VolumeWeight ) * agd
                      + 1000 * AgreementWeight * agn,
                      1000 * agd)

\* ---- SignalAgent ----

\* SignalAgent config: fusion_method, min_confidence, the enabled indicators
SignalConfig(fusion_method, min_confidence, enabled) ==
    [ fusion_method |-> fusion_method, min_confidence |-> min_confidence,
      enabled |-> enabled ]

\* the agent of signal_tasks.py
TaskSignalConfig == SignalConfig("weighted_average", 500, IndicatorNames)

\* the readings of the four indicators
Readings(ema, rsi, macd, sr) ==
    [ ema |-> ema, rsi |-> rsi, macd |-> macd, support_resistance |-> sr ]

\* candle_data as the pipeline looks at it.  kind: None, an empty list or a
\* dict; pair None when the key is missing; shape: "candles" (history
\* given), "ohlc" (the four prices of one candle) or "neither"; frame: "ok",
\* "missing_columns" or "bad_values" (prices that are not numbers); n the
\* number of candles; close and atr what the Risk Agent computes from the
\* frame; the factors what the ConfidenceScorer computes from it.
CandleData(kind, pair, shape, frame, n, readings, volatility_factor, volume_factor, close, atr, daily_pnl) ==
    [ kind |-> kind, pair |-> pair, shape |-> shape, frame |-> frame, n |-> n,
      readings |-> readings, volatility_factor |-> volatility_factor,
      volume_factor |-> volume_factor, close |-> close, atr |-> atr,
      daily_pnl |-> daily_pnl ]

\* len(df) of prepare_dataframe: the history, or the single candle
FrameLength(candle_data) ==
    IF candle_data.shape = "candles" THEN candle_data.n ELSE 1

\* generate_signals(df): an indicator that raises on prices it cannot
\* compute with is answered for with hold
GenerateSignals(enabled, candle_data) ==
    [ name \in enabled |->
        IF candle_data.frame = "bad_values" /\ FrameLength(candle_data) >= MinLength(name)
        THEN ErrorSignal
        ELSE GenerateSignal(name, FrameLength(candle_data), candle_data.readings[name]) ]

NoSignals == [ name \in {} |-> InsufficientData ]

\* What SignalAgent.process returns, or that it raised
SignalDecision(kind, action, confidence, reasoning, indicators, should_trade, error, pair) ==
    [ kind |-> kind, action |-> action, confidence |-> confidence,
      reasoning |-> reasoning, indicators |-> indicators,
      should_trade |-> should_trade, error |-> error, pair |-> pair ]

\* the three safe defaults of process
SafeDefault(reasoning, error, pair) ==
    SignalDecision("decision", "hold", 0, reasoning, IndicatorDetails(NoSignals),
                   FALSE, error, pair)

\* process raised instead of returning
SignalRaised(exception) ==
    SignalDecision("raised", None, NoneNum, exception, IndicatorDetails(NoSignals),
                   FALSE, TRUE, None)

NoSignalDecision ==
    SignalDecision("None", None, NoneNum, None, IndicatorDetails(NoSignals), FALSE,
                   FALSE, None)

\* the local `signals` of process, as far as process gets
ProcessSignals(sc, candle_data) ==
    IF \/ candle_data.kind # "dict"
       \/ candle_data.pair = None
       \/ candle_data.shape = "neither"
       \/ candle_data.frame = "missing_columns"
    THEN NoSignals
    ELSE GenerateSignals(sc.enabled, candle_data)

\* SignalAgent.process(candle_data).  validate_input evaluates
\* `"pair" in candle_data` and the returns evaluate candle_data.get(..)
\* outside the try block.
SignalAgentProcess(sc, candle_data) ==
    LET signals == ProcessSignals(sc, candle_data)
        fused == Fuse(sc.fusion_method, signals)
        n == FrameLength(candle_data)
        confidence ==
            CalculateConfidence(fused.confidence, signals,
                                IF n < FactorPeriod THEN NeutralFactor
                                ELSE candle_data.volatility_factor,
                                IF n < FactorPeriod THEN NeutralFactor
                                ELSE candle_data.volume_factor)
    IN  IF candle_data.kind = "None" THEN SignalRaised("TypeError")
        ELSE IF candle_data.kind # "dict" THEN SignalRaised("AttributeError")
        ELSE IF candle_data.pair = None
        THEN SafeDefault("Missing required field: pair", FALSE, None)
        ELSE IF candle_data.shape = "neither"
        THEN SafeDefault("Invalid input data", FALSE, candle_data.pair)
        ELSE IF candle_data.frame = "missing_columns"
        THEN SafeDefault("Error processing signal", TRUE, candle_data.pair)
        ELSE IF fused.method = None
        THEN SafeDefault("Error processing signal", TRUE, candle_data.pair)
        ELSE IF candle_data.frame = "bad_values" /\ n >= FactorPeriod
        THEN SafeDefault("Error processing signal", TRUE, candle_data.pair)
        ELSE SignalDecision("decision", fused.action, confidence, "fused",
                            fused.indicators, confidence >= sc.min_confidence,
                            FALSE, candle_data.pair)

\* the generate_signal task: the decision of process, or after the retries
\* of a call that raises the task's own default, which has no should_trade
GenerateSignalTask(sc, candle_data) ==
    LET decision == SignalAgentProcess(sc, candle_data)
    IN  IF decision.kind = "raised"
        THEN SignalDecision("task_default", "hold", 0, "Failed to generate signal after retries",
                            IndicatorDetails(NoSignals), FALSE, TRUE, None)
        ELSE decision

\* _calculate_levels: metadata[key]["price"] of the support_resistance entry
\* of signal_data["indicators"], None when the entry, its metadata or the
\* level is missing
ExtractLevel(indicators, key) ==
    IF "support_resistance" \notin DOMAIN indicators THEN NoneNum
    ELSE IF "metadata" \notin DOMAIN indicators["support_resistance"] THEN NoneNum
    ELSE indicators["support_resistance"].metadata[key]

\* the Signal Decision as RiskAgent.process reads it
RiskSignalOf(decision) ==
    Signal("dict", decision.action, decision.confidence,
           ExtractLevel(decision.indicators, "nearest_support"),
           ExtractLevel(decision.indicators, "nearest_resistance"))

\* candle_data as RiskAgent.process reads it
RiskCandleOf(candle_data) ==
    IF candle_data.kind = "None"
    THEN Candle("None", None, None, NoneNum, NoneNum, 0, 0, 0)
    ELSE IF candle_data.kind # "dict"
    THEN Candle("empty", None, None, NoneNum, NoneNum, 0, 0, 0)
    ELSE Candle("dict", candle_data.pair,
                IF candle_data.frame = "ok" /\ candle_data.shape # "neither"
                THEN "ok" ELSE "missing_columns",
                candle_data.close, candle_data.atr, 0, candle_data.daily_pnl, 0)

\* the validate_and_size task: the decision of RiskAgent.process; logging a
\* rejection reads candle_data.get("pair"), which raises on None, and after
\* the retries the task answers with its own rejection
ValidateAndSizeTask(rc, decision, candle_data) ==
    IF candle_data.kind = "None"
    THEN RiskRejection("Failed to validate trade after retries")
    ELSE RiskAgentProcess(rc, RiskSignalOf(decision), RiskCandleOf(candle_data))

\* the Risk Decision as the execute_order task and PositionManager.process
\* read it with .get
PositionDecisionOf(rd) ==
    Decision("dict", IF rd.approved THEN "True" ELSE "False", rd.pair, rd.action,
             rd.position_size, rd.entry_price, rd.stop_loss, rd.take_profit_levels)

InitSignalAgent(sc) ==
    /\ sigCfg = sc
    /\ signal_call = [ op |-> "init" ]
    /\ indicator_signals = NoSignals
    /\ signal_ret = NoSignalDecision

\* ------------------------------------------------------------------------
\* Initial state: the module-level PositionManager after construction
\* ------------------------------------------------------------------------

EmptyDict == [ p \in {} |-> 0 ]

Configs ==
    [ enable_dry_run : BOOLEAN, enable_trailing_stop : BOOLEAN,
      max_retries : 0..MaxRetriesCfg ]

\* trailing_distance_pct and trailing_activation_pct, in percent
TrailingConfigs ==
    [ trailing_distance_pct : {2}, activation_profit_pct : {1} ]

InitManagers ==
    /\ active_targets = EmptyDict
    /\ active_stops = EmptyDict
    /\ lastOp = NoOp("init")
    /\ tsRet = TsNone
    /\ tsInit = [ p \in Pairs |-> NoneNum ]
    /\ tsReached = [ p \in Pairs |-> FALSE ]
    /\ tpRet = {}
    /\ tpReturned = [ p \in Pairs |-> << >> ]
    /\ markRet = FALSE
    /\ now = 0
    /\ actions_taken = << >>

InitCall ==
    /\ entry = None
    /\ pc = "idle"
    /\ risk_decision = NoDecision
    /\ retries = 0
    /\ attempt = 0
    /\ gw = None
    /\ createSent = 0
    /\ ordersPlaced = 0
    /\ failures = 0
    /\ lastError = None
    /\ dryAnswer = None
    /\ executorCalls = 0
    /\ execution_result = NoExecResult
    /\ result = NoResult
    /\ taskResult = NoResult
    /\ pre_targets = EmptyDict
    /\ pre_stops = EmptyDict

Init ==
    /\ cfg \in Configs
    /\ tsCfg \in TrailingConfigs
    /\ InitManagers
    /\ InitCall
    /\ InitRiskAgent(TaskRiskConfig)
    /\ InitSignalAgent(TaskSignalConfig)

\* ------------------------------------------------------------------------
\* One call of the position stage, step by step
\* ------------------------------------------------------------------------

managerVars == << active_targets, active_stops, tsInit, tsReached, tpReturned >>
idleGhosts == << tsRet, tpRet, markRet, now >>

\* A caller starts the execute_order task, or calls process directly.
CallStart(e, d) ==
    /\ pc \in {"idle", "done"}
    /\ entry' = e
    /\ risk_decision' = d
    /\ pc' = IF e = "task" THEN "task" ELSE "process"
    /\ retries' = 0
    /\ attempt' = 0
    /\ gw' = None
    /\ createSent' = 0
    /\ ordersPlaced' = 0
    /\ failures' = 0
    /\ lastError' = None
    /\ dryAnswer' = None
    /\ executorCalls' = 0
    /\ execution_result' = NoExecResult
    /\ result' = NoResult
    /\ taskResult' = NoResult
    /\ pre_targets' = active_targets
    /\ pre_stops' = active_stops
    /\ lastOp' = NoOp("call")
    /\ UNCHANGED << cfg, tsCfg, otherVars, managerVars, idleGhosts >>

\* execute_order task, up to the call of position_manager.process:
\* risk_decision.get on None and action.upper() on None raise AttributeError
TaskBody ==
    /\ pc = "task"
    /\ IF risk_decision.kind = "None"
       THEN pc' = "task_exc" /\ taskResult' = taskResult
       ELSE IF risk_decision.approved # "True"
       THEN pc' = "done" /\ taskResult' = TaskSkipped
       ELSE IF risk_decision.action = None
       THEN pc' = "task_exc" /\ taskResult' = taskResult
       ELSE pc' = "process" /\ taskResult' = taskResult
    /\ lastOp' = NoOp("task")
    /\ UNCHANGED << cfg, tsCfg, otherVars, managerVars, idleGhosts, entry, risk_decision,
                    retries, attempt, gw, createSent, ordersPlaced, failures,
                    lastError, dryAnswer, executorCalls, execution_result,
                    result, pre_targets, pre_stops >>

\* except branch of the task: a failed result once the retries are used up,
\* otherwise self.retry re-queues the task
TaskExcept ==
    /\ pc = "task_exc"
    /\ IF retries >= TaskMaxRetries
       THEN pc' = "done" /\ taskResult' = TaskFailed /\ retries' = retries
       ELSE pc' = "task" /\ taskResult' = taskResult /\ retries' = retries + 1
    /\ lastOp' = NoOp("task")
    /\ UNCHANGED << cfg, tsCfg, otherVars, managerVars, idleGhosts, entry, risk_decision,
                    attempt, gw, createSent, ordersPlaced, failures,
                    lastError, dryAnswer, executorCalls, execution_result,
                    result, pre_targets, pre_stops >>

\* the task hands the result of process to its caller
TaskReturn ==
    /\ pc = "task_ret"
    /\ pc' = "done"
    /\ taskResult' = result
    /\ lastOp' = NoOp("task")
    /\ UNCHANGED << cfg, tsCfg, otherVars, managerVars, idleGhosts, entry, risk_decision,
                    retries, attempt, gw, createSent, ordersPlaced, failures,
                    lastError, dryAnswer, executorCalls, execution_result,
                    result, pre_targets, pre_stops >>

ProcessReturnsTo == IF entry = "task" THEN "task_ret" ELSE "done"

\* PositionManager.process, input validation and the call of the executor
ProcessValidate ==
    /\ pc = "process"
    /\ IF RejectionReason(risk_decision) # ""
       THEN /\ result' = CreateRejection(RejectionReason(risk_decision), NoExecResult)
            /\ pc' = ProcessReturnsTo
            /\ executorCalls' = executorCalls
       ELSE /\ result' = result
            /\ pc' = "exec"
            /\ executorCalls' = executorCalls + 1
    /\ lastOp' = NoOp("process")
    /\ UNCHANGED << cfg, tsCfg, otherVars, managerVars, idleGhosts, entry, risk_decision,
                    retries, attempt, gw, createSent, ordersPlaced, failures,
                    lastError, dryAnswer, execution_result, taskResult,
                    pre_targets, pre_stops >>

\* execute_order: with dry-run enabled the validation request goes out first
ExecBegin ==
    /\ pc = "exec"
    /\ pc' = IF cfg.enable_dry_run THEN "dry_run_wait" ELSE "loop"
    /\ lastOp' = NoOp("execute_order")
    /\ UNCHANGED << cfg, tsCfg, otherVars, managerVars, idleGhosts, entry, risk_decision,
                    retries, attempt, gw, createSent, ordersPlaced, failures,
                    lastError, dryAnswer, executorCalls, execution_result,
                    result, taskResult, pre_targets, pre_stops >>

\* The gateway answers the dry-run: valid, not valid, an error or timeout
\* (the client raises), or a reply without a "valid" field.
DryRunReply(answer) ==
    /\ pc = "dry_run_wait"
    /\ dryAnswer' = answer
    /\ IF answer = "malformed"
       THEN pc' = "after_exec" /\ execution_result' = ExecRaised("KeyError")
       ELSE IF DryRunRejects(answer)
       THEN pc' = "after_exec" /\ execution_result' = ExecRejected
       ELSE pc' = "loop" /\ execution_result' = execution_result
    /\ lastOp' = NoOp("execute_order")
    /\ UNCHANGED << cfg, tsCfg, otherVars, managerVars, idleGhosts, entry, risk_decision,
                    retries, attempt, gw, createSent, ordersPlaced, failures,
                    lastError, executorCalls, result, taskResult,
                    pre_targets, pre_stops >>

\* head of the retry loop: the next create_order request is sent, or the
\* loop is over and the function falls off its end
ExecLoop ==
    /\ pc = "loop"
    /\ IF LoopRuns(attempt, cfg.max_retries)
       THEN /\ pc' = "create_wait"
            /\ gw' = "sent"
            /\ createSent' = createSent + 1
            /\ execution_result' = execution_result
       ELSE /\ pc' = "after_exec"
            /\ gw' = gw
            /\ createSent' = createSent
            /\ execution_result' = ExecReturnedNone
    /\ lastOp' = NoOp("execute_order")
    /\ UNCHANGED << cfg, tsCfg, otherVars, managerVars, idleGhosts, entry, risk_decision,
                    retries, attempt, ordersPlaced, failures, lastError,
                    dryAnswer, executorCalls, result, taskResult,
                    pre_targets, pre_stops >>

\* The gateway's POST /orders handler: it places the order with Freqtrade,
\* whatever the request_id, or fails with a 500.
GatewayCreateOrder(placed) ==
    /\ pc = "create_wait"
    /\ gw = "sent"
    /\ gw' = IF placed THEN "placed" ELSE "failed"
    /\ ordersPlaced' = IF placed THEN ordersPlaced + 1 ELSE ordersPlaced
    /\ lastOp' = NoOp("gateway")
    /\ UNCHANGED << cfg, tsCfg, otherVars, managerVars, idleGhosts, entry, risk_decision,
                    retries, attempt, createSent, failures, lastError,
                    dryAnswer, executorCalls, execution_result, result,
                    taskResult, pre_targets, pre_stops, pc >>

\* create_order returns the gateway's response: execute_order returns
CreateOrderReturns ==
    /\ pc = "create_wait"
    /\ gw = "placed"
    /\ gw' = None
    /\ execution_result' = ExecExecuted(ordersPlaced, attempt + 1)
    /\ pc' = "after_exec"
    /\ lastOp' = NoOp("execute_order")
    /\ UNCHANGED << cfg, tsCfg, otherVars, managerVars, idleGhosts, entry, risk_decision,
                    retries, attempt, createSent, ordersPlaced, failures,
                    lastError, dryAnswer, executorCalls, result, taskResult,
                    pre_targets, pre_stops >>

\* create_order raises: the 30 s client timeout ends the wait (whether or
\* not the gateway has placed the order by then), or the gateway answered 500
CreateOrderRaises ==
    /\ pc = "create_wait"
    /\ gw \in {"sent", "placed", "failed"}
    /\ gw' = None
    /\ failures' = failures + 1
    /\ lastError' = IF gw = "failed" THEN "http_500" ELSE "timeout"
    /\ IF IsFinalAttempt(attempt, cfg.max_retries)
       THEN /\ execution_result' = ExecFailed(cfg.max_retries, lastError')
            /\ pc' = "after_exec"
            /\ attempt' = attempt
       ELSE /\ execution_result' = execution_result
            /\ pc' = "loop"
            /\ attempt' = attempt + 1
    /\ lastOp' = NoOp("execute_order")
    /\ UNCHANGED << cfg, tsCfg, otherVars, managerVars, idleGhosts, entry, risk_decision,
                    retries, createSent, ordersPlaced, dryAnswer,
                    executorCalls, result, taskResult, pre_targets, pre_stops >>

\* setup_trailing_stop multiplies entry_price: with entry_price None it
\* raises TypeError
TrailingSetupRaises(d) == d.entry_price = NoneNum

\* `if self.enable_trailing_stop and stop_loss`
WantsTrailingStop(d) == cfg.enable_trailing_stop /\ Truthy(d.stop_loss)

\* `if take_profit_levels and len(take_profit_levels) > 0`
WantsTakeProfit(d) == Len(d.take_profit_levels) > 0

\* PositionManager.process after the executor came back
ProcessAfterExec ==
    /\ pc = "after_exec"
    /\ pc' = ProcessReturnsTo
    /\ LET d == risk_decision
           er == execution_result
           withTp == SetupTakeProfitLevels(active_targets, d.pair, d.position_size,
                                           d.take_profit_levels)
       IN
       IF er.kind = "raised"
       THEN \* the exception of execute_order lands in the except branch
            /\ result' = CreateRejection("Error executing position", NoExecResult)
            /\ UNCHANGED << managerVars, lastOp >>
       ELSE IF er.kind = "NoneType"
       THEN \* execution_result["success"] on None raises TypeError
            /\ result' = CreateRejection("Error executing position", NoExecResult)
            /\ UNCHANGED << managerVars, lastOp >>
       ELSE IF ~er.success
       THEN /\ result' = CreateRejection("Order execution failed", er)
            /\ UNCHANGED << managerVars, lastOp >>
       ELSE /\ active_targets' = IF WantsTakeProfit(d) THEN withTp ELSE active_targets
            /\ tpReturned' = IF WantsTakeProfit(d)
                             THEN [ tpReturned EXCEPT ![d.pair] =
                                      [ i \in 1..Len(d.take_profit_levels) |-> 0 ] ]
                             ELSE tpReturned
            /\ IF WantsTrailingStop(d) /\ ~TrailingSetupRaises(d)
               THEN /\ active_stops' = SetupTrailingStop(active_stops, d.pair,
                                           d.entry_price, d.action, d.stop_loss)
                    /\ tsInit' = [ tsInit EXCEPT ![d.pair] = d.stop_loss ]
                    /\ tsReached' = [ tsReached EXCEPT ![d.pair] = FALSE ]
               ELSE UNCHANGED << active_stops, tsInit, tsReached >>
            /\ lastOp' = [ NoOp("setup") EXCEPT !.pair = d.pair ]
            /\ result' =
                 IF WantsTrailingStop(d) /\ TrailingSetupRaises(d)
                 THEN CreateRejection("Error executing position", NoExecResult)
                 ELSE Result(TRUE, "executed", "", er.order_id, er,
                             WantsTakeProfit(d), WantsTrailingStop(d))
    /\ UNCHANGED << cfg, tsCfg, otherVars, idleGhosts, entry, risk_decision, retries,
                    attempt, gw, createSent, ordersPlaced, failures, lastError,
                    dryAnswer, executorCalls, execution_result, taskResult,
                    pre_targets, pre_stops >>

CallNext ==
    \/ \E e \in {"task", "process"}, d \in Decisions : CallStart(e, d)
    \/ TaskBody
    \/ TaskExcept
    \/ TaskReturn
    \/ ProcessValidate
    \/ ExecBegin
    \/ \E answer \in {"valid", "invalid", "error", "malformed"} : DryRunReply(answer)
    \/ ExecLoop
    \/ \E placed \in BOOLEAN : GatewayCreateOrder(placed)
    \/ CreateOrderReturns
    \/ CreateOrderRaises
    \/ ProcessAfterExec

Next == CallNext

Spec == Init /\ [][Next]_vars

\* ------------------------------------------------------------------------
\* Properties of the position stage
\* ------------------------------------------------------------------------

\* A decision that must not lead to an order: missing, not approved, lacking
\* pair, action or position_size, or with an action other than buy/sell.
InvalidDecision(d) ==
    \/ d.kind \in {"None", "empty"}
    \/ d.approved \in {"False", None}
    \/ d.pair = None
    \/ d.action = None
    \/ d.position_size \in {NoneNum, 0}
    \/ d.action \notin {"buy", "sell"}

NothingOrdered ==
    /\ executorCalls = 0
    /\ createSent = 0
    /\ ordersPlaced = 0
    /\ active_targets = pre_targets
    /\ active_stops = pre_stops

ExecutorReturned == pc \in {"after_exec", "task_ret", "done"} /\ executorCalls > 0

\* C2: with dry-run enabled, once the gateway's dry-run validation answered
\* valid=false, execute_order returns success=false with status rejected and
\* no create_order request is sent for that call.
C2_DryRunInvalidRejects ==
    (cfg.enable_dry_run /\ dryAnswer = "invalid") =>
        /\ createSent = 0
        /\ ordersPlaced = 0
        /\ pc \in {"after_exec", "task_ret", "done"}
        /\ execution_result.kind = "dict"
        /\ ~execution_result.success
        /\ execution_result.status = "rejected"

C2_Witness ==
    /\ cfg.enable_dry_run
    /\ dryAnswer = "invalid"
    /\ pc = "done"
    /\ cfg.max_retries > 0

\* C3: one execute_order call sends at most max_retries create_order
\* requests; status executed is returned at the first request that succeeds,
\* with that request's attempt number; status failed is returned, with the
\* last captured error, after max_retries consecutive failed attempts and
\* only then.
C3_BoundedRetries ==
    /\ createSent <= cfg.max_retries
    /\ failures <= createSent
    /\ (ExecutorReturned /\ execution_result.status = "executed") =>
          /\ execution_result.attempt = createSent
          /\ failures = createSent - 1
    /\ (ExecutorReturned /\ execution_result.status = "failed") =>
          /\ failures = cfg.max_retries
          /\ createSent = cfg.max_retries
          /\ execution_result.error = lastError
    /\ (ExecutorReturned /\ cfg.max_retries > 0 /\ failures = cfg.max_retries) =>
          execution_result.status = "failed"

\* C3 witness: the second of two attempts failed with a 500 after the first
\* timed out
C3_Witness ==
    /\ pc = "done"
    /\ cfg.max_retries = 2
    /\ failures = 2
    /\ execution_result.status = "failed"
    /\ execution_result.error = "http_500"

\* C4: the retries of one execute_order call are sequential (at most one
\* create_order request is in flight, and only while the call waits for it)
\* and one call never has more than one order placed at the gateway.
C4_NoDuplicateOrder ==
    /\ (gw # None) => pc = "create_wait"
    /\ ordersPlaced <= 1

\* C5: once an approved decision went to the executor, process returns
\* success=true / status executed with the order id exactly when the
\* executor placed the order; when the executor reports failure it returns a
\* rejection carrying the executor's result and installs nothing.
C5_FaithfulOutcome ==
    (pc \in {"task_ret", "done"} /\ executorCalls > 0) =>
        /\ result.success <=> (execution_result.kind = "dict" /\ execution_result.success)
        /\ result.success =>
              (result.status = "executed" /\ result.order_id = execution_result.order_id)
        /\ (execution_result.kind = "dict" /\ ~execution_result.success) =>
              /\ result.status = "rejected"
              /\ result.execution_result = execution_result
              /\ active_targets = pre_targets
              /\ active_stops = pre_stops

\* ------------------------------------------------------------------------
\* TrailingStopManager driven directly: setup, price ticks, clear
\* ------------------------------------------------------------------------

TickPrices == { 100 * t : t \in MinTick..MaxTick }

\* entry price of the modelled positions, and the initial stops tried per
\* direction (one looser, one tighter than the first trailing level)
EntryPrices == {20000}
InitialStops(action) == IF action = "buy" THEN {19650, 19850} ELSE {20150, 20350}

Op(name, pair, price, action, order_id) ==
    [ op |-> name, pair |-> pair, price |-> price, action |-> action,
      order_id |-> order_id ]

\* whether current_price has reached the activation price of sc in the
\* favourable direction
ReachedActivation(sc, current_price) ==
    IF sc.action = "buy"
    THEN current_price >= sc.activation_price
    ELSE current_price <= sc.activation_price

\* setup_trailing_stop(pair, entry_price, action, initial_stop_loss)
TsSetup(pair, entry_price, action, initial_stop_loss) ==
    /\ active_stops' = SetupTrailingStop(active_stops, pair, entry_price, action,
                                         initial_stop_loss)
    /\ tsInit' = [ tsInit EXCEPT ![pair] = initial_stop_loss ]
    /\ tsReached' = [ tsReached EXCEPT ![pair] = FALSE ]
    /\ lastOp' = Op("setup", pair, entry_price, action, None)
    /\ UNCHANGED << cfg, tsCfg, active_targets, callVars, otherVars, tsRet, tpRet,
                    tpReturned, markRet, now >>

\* update_trailing_stop(pair, current_price)
TsUpdate(pair, current_price) ==
    /\ IF pair \notin DOMAIN active_stops
       THEN /\ tsRet' = TsNone
            /\ UNCHANGED << active_stops, tsReached >>
       ELSE LET u == UpdateStopConfig(active_stops[pair], current_price)
            IN  /\ active_stops' = [ active_stops EXCEPT ![pair] = u.config ]
                /\ tsRet' = u.ret
                /\ tsReached' = [ tsReached EXCEPT ![pair] =
                                    @ \/ ReachedActivation(active_stops[pair],
                                                           current_price) ]
    /\ lastOp' = Op("update", pair, current_price, None, None)
    /\ UNCHANGED << cfg, tsCfg, active_targets, callVars, otherVars, tsInit, tpRet,
                    tpReturned, markRet, now >>

\* clear_stop(pair)
TsClear(pair) ==
    /\ active_stops' = IF pair \in DOMAIN active_stops
                       THEN Without(active_stops, pair) ELSE active_stops
    /\ lastOp' = Op("clear", pair, NoneNum, None, None)
    /\ UNCHANGED << cfg, tsCfg, active_targets, callVars, otherVars, tsRet, tsInit,
                    tsReached, tpRet, tpReturned, markRet, now >>

TrailNext ==
    \/ \E pair \in Pairs, e \in EntryPrices, a \in Actions :
          \E sl \in InitialStops(a) : TsSetup(pair, e, a, sl)
    \/ \E pair \in Pairs, price \in TickPrices : TsUpdate(pair, price)
    \/ \E pair \in Pairs : TsClear(pair)

\* The managers on their own: a PositionManager with the settings of the
\* task module, no call of the position stage running
ManagerInit ==
    /\ Init
    /\ cfg = [ enable_dry_run |-> TRUE, enable_trailing_stop |-> TRUE,
               max_retries |-> MaxRetriesCfg ]

TrailSpec == ManagerInit /\ [][TrailNext]_vars

\* ------------------------------------------------------------------------
\* TakeProfitManager driven directly: setup, price ticks, fills, clear
\* ------------------------------------------------------------------------

\* PriceReached with strict comparisons
PriceReached_Strict(action, current_price, target_price) ==
    \/ action = "buy" /\ current_price > target_price
    \/ action = "sell" /\ current_price < target_price

\* the price test of check_take_profit_hits; an action other than buy and
\* sell matches nothing
PriceReached(action, current_price, target_price) ==
    \/ action = "buy" /\ current_price >= target_price
    \/ action = "sell" /\ current_price <= target_price

\* CheckTarget without the `if target["hit"]: continue`
CheckTarget_NoSkip(t, current_price, action) ==
    [ t EXCEPT !.hit = PriceReached(action, current_price, t.price) ]

\* one pass of the loop of check_take_profit_hits over target t
CheckTarget(t, current_price, action) ==
    IF t.hit THEN t
    ELSE IF PriceReached(action, current_price, t.price)
         THEN [ t EXCEPT !.hit = TRUE ]
         ELSE t

\* the hit_targets list of check_take_profit_hits, as indices
HitTargets(targets, current_price, action) ==
    { i \in DOMAIN targets :
        ~targets[i].hit /\ CheckTarget(targets[i], current_price, action).hit }

\* MarkMatches without the test of the hit flag
MarkMatches_AnyState(t, price) == t.price = price

\* `if target["price"] == price and target["hit"]`
MarkMatches(t, price) == t.price = price /\ t.hit

\* index of the target mark_target_executed marks (the first match), 0 if none
MarkedIndex(targets, price) ==
    IF \E i \in DOMAIN targets : MarkMatches(targets[i], price)
    THEN CHOOSE i \in DOMAIN targets :
            /\ MarkMatches(targets[i], price)
            /\ \A j \in DOMAIN targets : MarkMatches(targets[j], price) => i <= j
    ELSE 0

\* take_profit_levels handed to setup: a ladder of two rungs, and two rungs
\* at one price
SamePriceLevels == << [price |-> 20200, allocation |-> 50], [price |-> 20200, allocation |-> 50] >>
\* a ladder whose allocations add up to 120: setup_take_profit_levels takes
\* the allocations as its caller gives them
OverAllocatedLevels == << [price |-> 20200, allocation |-> 60], [price |-> 20300, allocation |-> 60] >>
LevelLists == { TwoLevelsBuy, SamePriceLevels, OverAllocatedLevels }
PositionSizes == {1001}
OrderIds == {"order-1", "order-2"}
TargetPrices == { 20200, 20300 }

\* ticks around the rungs: below, at, between and above them
TpTicks == { p \in TickPrices : p >= 20100 }

\* setup_take_profit_levels(pair, position_size, take_profit_levels)
TpSetup(pair, position_size, levels) ==
    /\ active_targets' = SetupTakeProfitLevels(active_targets, pair, position_size, levels)
    /\ tpReturned' = [ tpReturned EXCEPT ![pair] = [ i \in 1..Len(levels) |-> 0 ] ]
    /\ lastOp' = Op("setup", pair, NoneNum, None, None)
    /\ UNCHANGED << cfg, tsCfg, active_stops, callVars, otherVars, tsRet, tsInit,
                    tsReached, tpRet, markRet, now >>

\* check_take_profit_hits(pair, current_price, action)
TpCheck(pair, current_price, action) ==
    /\ IF pair \notin DOMAIN active_targets
       THEN /\ tpRet' = {}
            /\ UNCHANGED << active_targets, tpReturned >>
       ELSE LET targets == active_targets[pair]
                hits == HitTargets(targets, current_price, action)
            IN  /\ active_targets' = [ active_targets EXCEPT ![pair] =
                      [ i \in DOMAIN targets |->
                          CheckTarget(targets[i], current_price, action) ] ]
                /\ tpRet' = hits
                /\ tpReturned' = [ tpReturned EXCEPT ![pair] =
                      [ i \in DOMAIN targets |->
                          IF i \in hits THEN tpReturned[pair][i] + 1
                          ELSE tpReturned[pair][i] ] ]
    /\ lastOp' = Op("check", pair, current_price, action, None)
    /\ UNCHANGED << cfg, tsCfg, active_stops, callVars, otherVars, tsRet, tsInit,
                    tsReached, markRet, now >>

\* mark_target_executed(pair, price, order_id); datetime.utcnow() advances
TpMark(pair, price, order_id) ==
    /\ now < MaxClock
    /\ now' = now + 1
    /\ IF pair \notin DOMAIN active_targets
       THEN markRet' = FALSE /\ active_targets' = active_targets
       ELSE LET i == MarkedIndex(active_targets[pair], price)
            IN  IF i = 0
                THEN markRet' = FALSE /\ active_targets' = active_targets
                ELSE /\ markRet' = TRUE
                     /\ active_targets' =
                          [ active_targets EXCEPT ![pair][i].executed_at = now',
                                                  ![pair][i].order_id = order_id ]
    /\ lastOp' = Op("mark", pair, price, None, order_id)
    /\ UNCHANGED << cfg, tsCfg, active_stops, callVars, otherVars, tsRet, tsInit,
                    tsReached, tpRet, tpReturned >>

\* clear_targets(pair)
TpClear(pair) ==
    /\ active_targets' = IF pair \in DOMAIN active_targets
                         THEN Without(active_targets, pair) ELSE active_targets
    /\ lastOp' = Op("clear", pair, NoneNum, None, None)
    /\ UNCHANGED << cfg, tsCfg, active_stops, callVars, otherVars, tsRet, tsInit,
                    tsReached, tpRet, tpReturned, markRet, now >>

TpNext ==
    \/ \E pair \in Pairs, size \in PositionSizes, levels \in LevelLists :
          TpSetup(pair, size, levels)
    \/ \E pair \in Pairs, price \in TpTicks, a \in {"buy", "sell", "hold"} :
          TpCheck(pair, price, a)
    \/ \E pair \in Pairs, price \in TargetPrices, id \in OrderIds :
          TpMark(pair, price, id)
    \/ \E pair \in Pairs : TpClear(pair)

TpSpec == ManagerInit /\ [][TpNext]_vars

\* ------------------------------------------------------------------------
\* Properties of the trailing stop
\* ------------------------------------------------------------------------

\* C6: over any sequence of update_trailing_stop calls after a setup, the
\* current_stop of a pair never loosens: it never decreases for a buy
\* position and never increases for a sell position.
C6_StopNeverLoosens ==
    [][ lastOp'.op = "update" =>
          \A p \in DOMAIN active_stops :
              /\ p \in DOMAIN active_stops'
              /\ active_stops'[p].action = active_stops[p].action
              /\ IF active_stops[p].action = "buy"
                 THEN active_stops'[p].current_stop >= active_stops[p].current_stop
                 ELSE active_stops'[p].current_stop <= active_stops[p].current_stop
      ]_vars

\* C6 witness: a long position whose stop has been raised above the initial
\* stop, and a tick below the highest price that left it there
C6_Witness ==
    /\ lastOp.op = "update"
    /\ lastOp.pair \in DOMAIN active_stops
    /\ LET sc == active_stops[lastOp.pair]
       IN  /\ sc.action = "buy"
           /\ sc.updates >= 1
           /\ lastOp.price < sc.highest_price
           /\ sc.current_stop > tsInit[lastOp.pair]
           /\ tsInit[lastOp.pair] = 19850

\* C7: as long as no update price has reached the activation price of a pair
\* (>= for buy, <= for sell), update_trailing_stop returns None and
\* current_stop is the initial_stop_loss given at setup.
C7_NoMoveBeforeActivation ==
    \A p \in DOMAIN active_stops :
        ~tsReached[p] =>
            /\ active_stops[p].current_stop = tsInit[p]
            /\ (lastOp.op = "update" /\ lastOp.pair = p) => tsRet.kind = "None"

\* C7 witness: a tick above the entry price of a long position and below
\* its activation price
C7_Witness ==
    /\ lastOp.op = "update"
    /\ lastOp.pair \in DOMAIN active_stops
    /\ ~tsReached[lastOp.pair]
    /\ active_stops[lastOp.pair].action = "buy"
    /\ lastOp.price > active_stops[lastOp.pair].entry_price
    /\ lastOp.price < active_stops[lastOp.pair].activation_price
    /\ tsRet.kind = "None"

\* ------------------------------------------------------------------------
\* Properties of the take-profit ladder
\* ------------------------------------------------------------------------

\* the claims' reading of "the current price has reached the target"
C9_Reached(action, current_price, target_price) ==
    IF action = "buy" THEN current_price >= target_price
    ELSE current_price <= target_price

\* C8: no check_take_profit_hits call, whatever its price and action, resets
\* the hit flag of a target that is hit.
C8_HitNeverReset ==
    [][ lastOp'.op = "check" =>
          \A p \in DOMAIN active_targets :
              /\ p \in DOMAIN active_targets'
              /\ DOMAIN active_targets'[p] = DOMAIN active_targets[p]
              /\ \A i \in DOMAIN active_targets[p] :
                    active_targets[p][i].hit => active_targets'[p][i].hit
      ]_vars

\* C8 witness: a check for a long position at a price below a target that
\* is hit
C8_Witness ==
    /\ lastOp.op = "check"
    /\ lastOp.action = "buy"
    /\ lastOp.pair \in DOMAIN active_targets
    /\ \E i \in DOMAIN active_targets[lastOp.pair] :
          /\ active_targets[lastOp.pair][i].hit
          /\ lastOp.price < active_targets[lastOp.pair][i].price

\* C9: a check_take_profit_hits call for a buy or sell position returns
\* exactly the targets that were not yet hit and whose price the current
\* price has reached, and marks them hit; between two setups no target is
\* returned more than once.
C9_ReturnsNewHitsOnce ==
    /\ [][ ( /\ lastOp'.op = "check"
             /\ lastOp'.action \in {"buy", "sell"}
             /\ lastOp'.pair \in DOMAIN active_targets ) =>
           LET targets == active_targets[lastOp'.pair]
           IN  /\ tpRet' = { i \in DOMAIN targets :
                               /\ ~targets[i].hit
                               /\ C9_Reached(lastOp'.action, lastOp'.price,
                                             targets[i].price) }
               /\ \A i \in tpRet' : active_targets'[lastOp'.pair][i].hit
         ]_vars
    /\ [](\A p \in DOMAIN active_targets :
            \A i \in DOMAIN active_targets[p] : tpReturned[p][i] <= 1)

\* C9 witness: the check returned the second rung alone, the first having
\* been returned by an earlier check
C9_Witness ==
    /\ lastOp.op = "check"
    /\ lastOp.pair \in DOMAIN active_targets
    /\ tpRet = {2}
    /\ tpReturned[lastOp.pair] = << 1, 1 >>
    /\ lastOp.price = active_targets[lastOp.pair][2].price

\* a target is executed once mark_target_executed has stamped it
Executed(t) == t.executed_at # NoneNum

\* C10: mark_target_executed(pair, price, order_id) records an execution
\* only for a target at that price that is hit; for an unknown pair or
\* without a hit target at that price it returns False and changes nothing:
\* no pending target is ever executed.
C10_OnlyHitTargetsExecuted ==
    /\ [](\A p \in DOMAIN active_targets :
            \A i \in DOMAIN active_targets[p] :
                Executed(active_targets[p][i]) => active_targets[p][i].hit)
    /\ [][ lastOp'.op = "mark" =>
           LET p == lastOp'.pair
               known == p \in DOMAIN active_targets
               matches == IF known
                          THEN { i \in DOMAIN active_targets[p] :
                                   /\ active_targets[p][i].price = lastOp'.price
                                   /\ active_targets[p][i].hit }
                          ELSE {}
           IN  IF matches = {}
               THEN markRet' = FALSE /\ active_targets' = active_targets
               ELSE /\ markRet' = TRUE
                    /\ DOMAIN active_targets' = DOMAIN active_targets
                    /\ \A q \in DOMAIN active_targets :
                          \A i \in DOMAIN active_targets[q] :
                              active_targets'[q][i] # active_targets[q][i] =>
                                  /\ q = p
                                  /\ i \in matches
                                  /\ active_targets'[q][i].order_id = lastOp'.order_id
                                  /\ active_targets'[q][i].hit
         ]_vars

\* C10 witness: a fill reported for the price of a pending target was refused
C10_Witness ==
    /\ lastOp.op = "mark"
    /\ markRet = FALSE
    /\ lastOp.pair \in DOMAIN active_targets
    /\ \E i \in DOMAIN active_targets[lastOp.pair] :
          /\ active_targets[lastOp.pair][i].price = lastOp.price
          /\ ~active_targets[lastOp.pair][i].hit
    /\ \E i \in DOMAIN active_targets[lastOp.pair] :
          active_targets[lastOp.pair][i].hit

\* ------------------------------------------------------------------------
\* get_remaining_position
\* ------------------------------------------------------------------------

\* sum(t["allocation_pct"] for t in targets if keep(t))
RECURSIVE SumAllocation(_, _)
SumAllocation(targets, executedOnly) ==
    IF targets = << >> THEN 0
    ELSE (IF executedOnly /\ Head(targets).executed_at = NoneNum
          THEN 0 ELSE Head(targets).allocation_pct)
         + SumAllocation(Tail(targets), executedOnly)

\* get_remaining_position(pair)["remaining_pct"]
RemainingPct(targets, pair) ==
    IF pair \notin DOMAIN targets THEN 100
    ELSE 100 - SumAllocation(targets[pair], TRUE)

\* C11: the allocations of a pair's installed targets add up to at most 100,
\* and get_remaining_position never reports a negative remaining_pct.
C11_AllocationWithinHundred ==
    \A p \in DOMAIN active_targets :
        /\ SumAllocation(active_targets[p], FALSE) <= 100
        /\ RemainingPct(active_targets, p) >= 0

\* ------------------------------------------------------------------------
\* PositionManager.update_position on the positions that process opened
\* ------------------------------------------------------------------------

\* check_stop_hit with strict comparisons
CheckStopHit_Strict(stops, pair, current_price) ==
    /\ pair \in DOMAIN stops
    /\ IF stops[pair].action = "buy"
       THEN current_price < stops[pair].current_stop
       ELSE current_price > stops[pair].current_stop

\* TrailingStopManager.check_stop_hit(pair, current_price)
CheckStopHit(stops, pair, current_price) ==
    /\ pair \in DOMAIN stops
    /\ IF stops[pair].action = "buy"
       THEN current_price <= stops[pair].current_stop
       ELSE current_price >= stops[pair].current_stop

\* the entries update_position appends to result["actions_taken"]
TrailingStopUpdated(details) ==
    [ type |-> "trailing_stop_updated", details |-> details, stop_price |-> NoneNum,
      current_price |-> NoneNum, action_required |-> None ]
StopLossHit(stop_price, current_price) ==
    [ type |-> "stop_loss_hit", details |-> TsNone, stop_price |-> stop_price,
      current_price |-> current_price, action_required |-> "close_position" ]

\* the ladder of a short position, and the stop of each side: one tick
\* price below (above) the entry
TwoLevelsSell == << [price |-> 19800, allocation |-> 60], [price |-> 19700, allocation |-> 40] >>
PositionStops(action) == IF action = "buy" THEN {19800} ELSE {20200}
PositionLevels(action) == IF action = "buy" THEN TwoLevelsBuy ELSE TwoLevelsSell

\* approved decisions whose order the executor places
OpenDecisions ==
    { Decision("dict", "True", p, a, 1000, 20000, sl, lv) :
        p \in Pairs, a \in Actions, sl \in {19800, 20200}, lv \in {TwoLevelsBuy, TwoLevelsSell} }

PositionDecisions ==
    { d \in OpenDecisions : /\ d.stop_loss \in PositionStops(d.action)
                            /\ d.take_profit_levels = PositionLevels(d.action) }

\* process(risk_decision) of a decision that passes validation and whose
\* order is executed: the take-profit ladder and the trailing stop installed
PmOpen(d) ==
    /\ active_targets' = IF WantsTakeProfit(d)
                         THEN SetupTakeProfitLevels(active_targets, d.pair,
                                  d.position_size, d.take_profit_levels)
                         ELSE active_targets
    /\ tpReturned' = IF WantsTakeProfit(d)
                     THEN [ tpReturned EXCEPT ![d.pair] =
                              [ i \in 1..Len(d.take_profit_levels) |-> 0 ] ]
                     ELSE tpReturned
    /\ IF WantsTrailingStop(d)
       THEN /\ active_stops' = SetupTrailingStop(active_stops, d.pair,
                                   d.entry_price, d.action, d.stop_loss)
            /\ tsInit' = [ tsInit EXCEPT ![d.pair] = d.stop_loss ]
            /\ tsReached' = [ tsReached EXCEPT ![d.pair] = FALSE ]
       ELSE UNCHANGED << active_stops, tsInit, tsReached >>
    /\ lastOp' = Op("process", d.pair, d.entry_price, d.action, None)
    /\ UNCHANGED << cfg, tsCfg, callVars, otherVars, tsRet, tpRet, markRet, now >>

\* update_position(pair, current_price)
PmUpdate(pair, current_price) ==
    /\ LET enabled == cfg.enable_trailing_stop /\ pair \in DOMAIN active_stops
           u == UpdateStopConfig(active_stops[pair], current_price)
           stops == IF enabled THEN [ active_stops EXCEPT ![pair] = u.config ]
                    ELSE active_stops
       IN  /\ active_stops' = stops
           /\ tsRet' = IF enabled THEN u.ret ELSE tsRet
           /\ tsReached' = IF enabled
                           THEN [ tsReached EXCEPT ![pair] =
                                    @ \/ ReachedActivation(active_stops[pair],
                                                           current_price) ]
                           ELSE tsReached
           /\ actions_taken' =
                (IF enabled /\ u.ret.kind = "dict" /\ u.ret.updated
                 THEN << TrailingStopUpdated(u.ret) >> ELSE << >>)
                \o
                (IF enabled /\ CheckStopHit(stops, pair, current_price)
                 THEN << StopLossHit(stops[pair].current_stop, current_price) >>
                 ELSE << >>)
    /\ lastOp' = Op("update_position", pair, current_price, None, None)
    /\ UNCHANGED << cfg, tsCfg, active_targets, callVars, riskVars, signalVars, tsInit,
                    tpRet, tpReturned, markRet, now >>

PositionNext ==
    \/ \E d \in PositionDecisions : PmOpen(d)
    \/ \E pair \in Pairs, price \in TickPrices : PmUpdate(pair, price)

\* a PositionManager with or without trailing stops, no call running
PositionInit ==
    /\ Init
    /\ cfg.enable_dry_run
    /\ cfg.max_retries = MaxRetriesCfg

PositionSpec == PositionInit /\ [][PositionNext]_vars

\* the stop_loss_hit entries of the latest update_position
StopLossHits ==
    { i \in DOMAIN actions_taken : actions_taken[i].type = "stop_loss_hit" }

\* C12: update_position reports stop_loss_hit with action_required =
\* close_position exactly when, after the tick's trailing-stop update, the
\* price is at or beyond current_stop on the adverse side (<= for buy, >= for
\* sell); it removes or resets neither the trailing stop nor the take-profit
\* targets of any pair.
C12_StopHitReportedNotActed ==
    /\ [](lastOp.op = "update_position" =>
            LET p == lastOp.pair
                adverse == /\ p \in DOMAIN active_stops
                           /\ IF active_stops[p].action = "buy"
                              THEN lastOp.price <= active_stops[p].current_stop
                              ELSE lastOp.price >= active_stops[p].current_stop
            IN  /\ (StopLossHits # {}) <=> adverse
                /\ \A i \in StopLossHits :
                      /\ actions_taken[i].action_required = "close_position"
                      /\ actions_taken[i].stop_price = active_stops[p].current_stop)
    /\ [][ lastOp'.op = "update_position" =>
             /\ active_targets' = active_targets
             /\ DOMAIN active_stops' = DOMAIN active_stops
             /\ \A p \in DOMAIN active_stops :
                   /\ active_stops'[p].entry_price = active_stops[p].entry_price
                   /\ active_stops'[p].action = active_stops[p].action
                   /\ active_stops'[p].activated \/ ~active_stops[p].activated
                   /\ active_stops'[p].updates >= active_stops[p].updates
         ]_vars

\* C12 witness: a tick exactly at the stop of a long position is reported,
\* and the position's stop and targets are still installed
C12_Witness ==
    /\ lastOp.op = "update_position"
    /\ lastOp.pair \in DOMAIN active_stops
    /\ lastOp.pair \in DOMAIN active_targets
    /\ active_stops[lastOp.pair].action = "buy"
    /\ lastOp.price = active_stops[lastOp.pair].current_stop
    /\ StopLossHits # {}

\* C13: update_position advances the take-profit ladder as well as the
\* trailing stop: a pending target whose price the tick has reached is
\* marked hit by the call.
C13_UpdateAdvancesTakeProfit ==
    [][ ( /\ lastOp'.op = "update_position"
          /\ lastOp'.pair \in DOMAIN active_targets
          /\ lastOp'.pair \in DOMAIN active_stops ) =>
        \A i \in DOMAIN active_targets[lastOp'.pair] :
            C9_Reached(active_stops[lastOp'.pair].action, lastOp'.price,
                       active_targets[lastOp'.pair][i].price)
            => active_targets'[lastOp'.pair][i].hit
      ]_vars

\* ------------------------------------------------------------------------
\* Properties of execute_order on its own
\* ------------------------------------------------------------------------

\* C14: whatever the gateway does and whatever max_retries is configured,
\* execute_order ends by returning a result whose status is executed,
\* rejected or failed; it neither raises nor returns without a result.
C14_AlwaysReturnsStatus ==
    pc = "after_exec" =>
        /\ execution_result.kind = "dict"
        /\ execution_result.status \in {"executed", "rejected", "failed"}
\* C15: a gateway call of execute_order that times out or fails, the
\* dry-run validation call as much as the order submission, is tried again;
\* the execution is given up only after max_retries failed tries.
C15_GatewayFailureRetried ==
    [][ /\ ( /\ pc = "dry_run_wait"
             /\ dryAnswer' = "error"
             /\ 1 < cfg.max_retries ) => pc' # "after_exec"
        /\ ( /\ pc = "create_wait"
             /\ failures' = failures + 1
             /\ failures' < cfg.max_retries ) => pc' # "after_exec"
      ]_vars

\* ------------------------------------------------------------------------
\* RiskAgent driven directly: process, and the daily-loss check on its own
\* ------------------------------------------------------------------------

Confidences == {NoneNum, 600}
Closes == {2000, 2040}
\* a flat candle (high = low) has range 0
Atrs == {0, 100, 1000}
OpenTradeCounts == {0, 5}
DailyPnls == {0 - 1000, 0 - 500, 0 - 450, 0 - 400, 0 - 100, 0, 100}
CandlePnls == {0 - 500, 0}
Exposures == {0, 5000}

Signals ==
    { Signal("None", None, NoneNum, NoneNum, NoneNum),
      Signal("empty", None, NoneNum, NoneNum, NoneNum),
      Signal("dict", None, 600, NoneNum, NoneNum),
      Signal("dict", "hold", 600, NoneNum, NoneNum) }
    \cup { Signal("dict", a, c, sr[1], sr[2]) :
             a \in Actions, c \in Confidences,
             sr \in { << NoneNum, NoneNum >>, << 1900, 2200 >> } }

Candles ==
    { Candle("None", None, None, NoneNum, NoneNum, 0, 0, 0),
      Candle("empty", None, None, NoneNum, NoneNum, 0, 0, 0),
      Candle("dict", None, "ok", 2000, 100, 0, 0, 0),
      Candle("dict", "BTC/USDT", "missing_columns", NoneNum, NoneNum, 0, 0, 0) }
    \cup { Candle("dict", "BTC/USDT", "ok", c, atr, n, pnl, x) :
             c \in Closes, atr \in Atrs, n \in OpenTradeCounts,
             pnl \in CandlePnls, x \in Exposures }

\* risk_agent.process(signal_data, candle_data)
RiskProcess(signal, candle) ==
    /\ risk_ret' = RiskAgentProcess(riskCfg, signal, candle)
    /\ risk_call' = [ op |-> "process", signal |-> signal, candle |-> candle ]
    /\ UNCHANGED << cfg, tsCfg, active_targets, active_stops, callVars, ghostVars,
                    updateVars, riskCfg, signalVars >>

\* risk_checker.check_daily_loss(daily_pnl, account_balance)
RiskCheckDailyLoss(daily_pnl) ==
    /\ risk_ret' = CheckDailyLoss(riskCfg.daily_loss_limit, daily_pnl, AccountBalance)
    /\ risk_call' = [ op |-> "check_daily_loss",
                      signal |-> Signal("None", None, NoneNum, NoneNum, NoneNum),
                      candle |-> Candle("None", None, None, NoneNum, NoneNum, 0,
                                        daily_pnl, 0) ]
    /\ UNCHANGED << cfg, tsCfg, active_targets, active_stops, callVars, ghostVars,
                    updateVars, riskCfg, signalVars >>

RiskNext ==
    \/ \E signal \in Signals, candle \in Candles : RiskProcess(signal, candle)
    \/ \E daily_pnl \in DailyPnls : RiskCheckDailyLoss(daily_pnl)

\* a RiskAgent of any configuration beside the idle position stage
RiskInit ==
    /\ cfg = [ enable_dry_run |-> TRUE, enable_trailing_stop |-> TRUE,
               max_retries |-> MaxRetriesCfg ]
    /\ tsCfg \in TrailingConfigs
    /\ InitManagers
    /\ InitCall
    /\ \E rc \in RiskConfigs : InitRiskAgent(rc)
    /\ InitSignalAgent(TaskSignalConfig)

RiskSpec == RiskInit /\ [][RiskNext]_vars

\* C16: process answers with the rejection (approved false, action hold,
\* position_size 0, risk_score 1.0), nothing sized and nothing validated,
\* when the signal or the candle data is missing, the signal says hold or the
\* candle data names no pair; an error while processing, an error result of
\* the stop calculator included, ends in the same rejection and is never
\* raised.
C16_RejectsSafely ==
    risk_call.op = "process" =>
        LET signal == risk_call.signal
            candle == risk_call.candle
            unusable == \/ signal.kind \in {"None", "empty"}
                        \/ candle.kind \in {"None", "empty"}
                        \/ signal.action \in {None, "hold"}
                        \/ candle.pair = None
            failing == \/ candle.frame = "missing_columns"
                       \/ /\ riskCfg.stop_loss_method = "support_resistance"
                          /\ signal.action = "buy" /\ signal.support = NoneNum
                       \/ /\ riskCfg.stop_loss_method = "support_resistance"
                          /\ signal.action = "sell" /\ signal.resistance = NoneNum
        IN  /\ risk_ret.kind \in {"rejection", "decision"}
            /\ (unusable \/ failing) =>
                  /\ risk_ret.kind = "rejection"
                  /\ risk_ret.reason # None
            /\ unusable => risk_ret.validation.kind = "None"
            /\ risk_ret.kind = "rejection" =>
                  /\ risk_ret.approved = FALSE
                  /\ risk_ret.action = "hold"
                  /\ risk_ret.position_size = 0
                  /\ risk_ret.risk_score = 1000

\* C16 witness: the support/resistance method without a support level for
\* a buy signal on good candle data
C16_Witness ==
    /\ risk_call.op = "process"
    /\ riskCfg.stop_loss_method = "support_resistance"
    /\ risk_call.signal.action = "buy"
    /\ risk_call.signal.support = NoneNum
    /\ risk_call.candle.frame = "ok"
    /\ risk_call.candle.pair # None
    /\ risk_ret.kind = "rejection"
    /\ risk_ret.reason = "Error processing risk"

\* C17: a decision that went through validation is approved exactly when
\* the position-size, open-trades, daily-loss and total-exposure checks all
\* approve, whatever the risk_score and the confidence; when it is not
\* approved its action is hold.
C17_ApprovedIffAllChecks ==
    (risk_call.op = "process" /\ risk_ret.kind = "decision") =>
        LET checks == risk_ret.validation.checks
        IN  /\ Len(checks) = 4
            /\ { checks[i].check : i \in 1..4 } =
                 {"position_size", "open_trades", "daily_loss", "total_exposure"}
            /\ risk_ret.approved <=> (\A i \in 1..4 : checks[i].approved)
            /\ risk_ret.approved => risk_ret.action = risk_call.signal.action
            /\ ~risk_ret.approved => risk_ret.action = "hold"

\* C17 witness: a signal with a confidence turned down because the exposure
\* check alone refuses
C17_Witness ==
    /\ risk_call.op = "process"
    /\ risk_ret.kind = "decision"
    /\ risk_call.signal.confidence = 600
    /\ ~risk_ret.approved
    /\ risk_ret.action = "hold"
    /\ risk_ret.validation.checks[1].approved
    /\ risk_ret.validation.checks[2].approved
    /\ risk_ret.validation.checks[3].approved
    /\ ~risk_ret.validation.checks[4].approved

\* C18: the risk_score of every validation result and of every decision
\* lies between 0 and 1.
C18_RiskScoreInUnitInterval ==
    (risk_call.op = "process" /\ risk_ret.kind \in {"decision", "rejection"}) =>
        /\ risk_ret.risk_score >= 0
        /\ risk_ret.risk_score <= 1000
        /\ risk_ret.validation.kind = "dict" =>
              /\ risk_ret.validation.risk_score >= 0
              /\ risk_ret.validation.risk_score <= 1000

\* C19: with use_kelly on and a confidence in the signal, the position_size
\* that is validated and returned is the Kelly-adjusted size, not the
\* ATR-based one.
C19_KellySizeDecides ==
    ( /\ risk_call.op = "process"
      /\ risk_ret.kind = "decision"
      /\ riskCfg.use_kelly
      /\ risk_call.signal.confidence # NoneNum ) =>
        /\ risk_ret.kelly_size # NoneNum
        /\ risk_ret.position_size = risk_ret.kelly_size
        /\ risk_ret.validation.checks[1].value =
             RoundHalfEven(RoundHalfEven(risk_ret.kelly_size * risk_call.candle.close,
                                         10000) * 100, AccountBalance)

\* C20: check_daily_loss rejects exactly when daily_pnl is negative and
\* |daily_pnl| / balance >= daily_loss_limit_pct; a loss of at least 80% of
\* the limit and below the limit is approved with a warning.
C20_DailyLossVerdict ==
    risk_call.op = "check_daily_loss" =>
        LET pnl == risk_call.candle.daily_pnl
            limit == riskCfg.daily_loss_limit
            atLimit == pnl < 0 /\ (0 - pnl) * 10000 >= limit * AccountBalance
            nearLimit == /\ pnl < 0
                         /\ (0 - pnl) * 100000 >= limit * 8 * AccountBalance
                         /\ ~atLimit
        IN  /\ ~risk_ret.approved <=> atLimit
            /\ nearLimit => (risk_ret.approved /\ risk_ret.warned)

\* ------------------------------------------------------------------------
\* Both managers driven together for long positions, pair by pair in any order
\* ------------------------------------------------------------------------

\* the lowest and the highest tick: beyond the activation price and the
\* targets of either side
CrossTicks == { 100 * MinTick, 100 * MaxTick }

CrossNext ==
    \/ \E pair \in Pairs, e \in EntryPrices, sl \in PositionStops("buy") :
          TsSetup(pair, e, "buy", sl)
    \/ \E pair \in Pairs : TsClear(pair)
    \/ \E pair \in Pairs, size \in PositionSizes : TpSetup(pair, size, TwoLevelsBuy)
    \/ \E pair \in Pairs, price \in CrossTicks : TpCheck(pair, price, "buy")
    \/ \E pair \in Pairs : TpMark(pair, 20300, "order-1")
    \/ \E pair \in Pairs : TpClear(pair)
    \/ \E pair \in Pairs, price \in CrossTicks : PmUpdate(pair, price)

CrossSpec == ManagerInit /\ [][CrossNext]_vars

\* the take-profit and trailing-stop state of pair q is the same before and
\* after the step
PairUntouched(q) ==
    /\ (q \in DOMAIN active_stops) <=> (q \in DOMAIN active_stops')
    /\ q \in DOMAIN active_stops => active_stops'[q] = active_stops[q]
    /\ (q \in DOMAIN active_targets) <=> (q \in DOMAIN active_targets')
    /\ q \in DOMAIN active_targets => active_targets'[q] = active_targets[q]

\* C23: an operation on one pair leaves the take-profit and trailing-stop
\* state of every other pair as it was, so that under any interleaving of the
\* pairs' operations each pair's stop only tightens and no hit flag of a
\* pair is reset unless that pair is set up again or cleared.
C23_PairsIsolated ==
    [][ \A q \in Pairs :
          /\ q # lastOp'.pair => PairUntouched(q)
          /\ ( /\ ~(lastOp'.pair = q /\ lastOp'.op \in {"setup", "clear"})
               /\ q \in DOMAIN active_stops ) =>
                 /\ q \in DOMAIN active_stops'
                 /\ IF active_stops[q].action = "buy"
                    THEN active_stops'[q].current_stop >= active_stops[q].current_stop
                    ELSE active_stops'[q].current_stop <= active_stops[q].current_stop
          /\ ( /\ ~(lastOp'.pair = q /\ lastOp'.op \in {"setup", "clear"})
               /\ q \in DOMAIN active_targets ) =>
                 /\ q \in DOMAIN active_targets'
                 /\ \A i \in DOMAIN active_targets[q] :
                       active_targets[q][i].hit => active_targets'[q][i].hit
      ]_vars

\* C23 witness: one pair was cleared while the other keeps a tightened stop
\* and a hit target
C23_Witness ==
    /\ lastOp.op = "clear"
    /\ \E q \in Pairs \ {lastOp.pair} :
          /\ q \in DOMAIN active_stops
          /\ active_stops[q].updates >= 1
          /\ q \in DOMAIN active_targets
          /\ active_targets[q][1].hit
    /\ lastOp.pair \notin DOMAIN active_stops
    /\ lastOp.pair \notin DOMAIN active_targets

\* the trailing level of an extreme price as the claim states it
C28_Level(action, extreme) ==
    IF action = "buy"
    THEN (extreme * (100 - tsCfg.trailing_distance_pct)) \div 100
    ELSE (extreme * (100 + tsCfg.trailing_distance_pct)) \div 100

\* C28: once a trailing stop is activated, after every update_trailing_stop
\* current_stop is the tighter of the initial stop and the trailing level of
\* the tracked extreme, max(initial, highest * (1 - distance)) for buy and
\* min(initial, lowest * (1 + distance)) for sell, and the tracked extreme
\* is the extreme of the prices passed since the activating one.
C28_StopIsTrailingLevelOfExtreme ==
    /\ [](\A p \in DOMAIN active_stops :
            active_stops[p].activated =>
                IF active_stops[p].action = "buy"
                THEN active_stops[p].current_stop =
                       Max(tsInit[p], C28_Level("buy", active_stops[p].highest_price))
                ELSE active_stops[p].current_stop =
                       Min(tsInit[p], C28_Level("sell", active_stops[p].lowest_price)))
    /\ [][ (lastOp'.op = "update" /\ lastOp'.pair \in DOMAIN active_stops) =>
             LET p == lastOp'.pair
                 old == active_stops[p]
                 new == active_stops'[p]
             IN  new.activated =>
                    IF old.action = "buy"
                    THEN new.highest_price =
                           IF old.activated THEN Max(old.highest_price, lastOp'.price)
                           ELSE lastOp'.price
                    ELSE new.lowest_price =
                           IF old.activated THEN Min(old.lowest_price, lastOp'.price)
                           ELSE lastOp'.price
         ]_vars

\* C28 witness: a short position whose stop has come down to the trailing
\* level of its lowest price, and a later tick above that lowest price
C28_Witness ==
    /\ lastOp.op = "update"
    /\ lastOp.pair \in DOMAIN active_stops
    /\ LET sc == active_stops[lastOp.pair]
       IN  /\ sc.action = "sell"
           /\ sc.activated
           /\ lastOp.price > sc.lowest_price
           /\ sc.current_stop = C28_Level("sell", sc.lowest_price)
           /\ sc.current_stop < tsInit[lastOp.pair]

\* C29: once mark_target_executed has recorded an order id for a target, no
\* later mark_target_executed or check_take_profit_hits changes the
\* target's order_id or executed_at.
C29_ExecutedIsTerminal ==
    [][ lastOp'.op \in {"mark", "check"} =>
          \A p \in DOMAIN active_targets :
              \A i \in DOMAIN active_targets[p] :
                  Executed(active_targets[p][i]) =>
                      /\ p \in DOMAIN active_targets'
                      /\ active_targets'[p][i].order_id = active_targets[p][i].order_id
                      /\ active_targets'[p][i].executed_at = active_targets[p][i].executed_at
      ]_vars

\* C30: every approved Risk Decision has its levels on the right side of the
\* entry price: stop_loss < entry_price < every take-profit price for buy,
\* every take-profit price < entry_price < stop_loss for sell.
C30_LevelsOnCorrectSide ==
    (risk_call.op = "process" /\ risk_ret.kind = "decision" /\ risk_ret.approved) =>
        LET entry_cents == risk_call.candle.close * 100
            tps == risk_ret.take_profit_levels
        IN  IF risk_ret.action = "buy"
            THEN /\ risk_ret.stop_loss < entry_cents
                 /\ \A i \in DOMAIN tps : entry_cents < tps[i].price
            ELSE /\ entry_cents < risk_ret.stop_loss
                 /\ \A i \in DOMAIN tps : tps[i].price < entry_cents

\* ------------------------------------------------------------------------
\* Signal stage driven directly: one indicator, the fusion, the agent
\* ------------------------------------------------------------------------

\* series lengths on both sides of every indicator's minimum
SeriesLengths == {0, 1, 9, 14, 15, 34, 35, 49, 50}

EmaReadings ==
    { EmaReading(2010, 2000, 1995, 2000, 1990, 2000),
      EmaReading(2010, 2000, 1995, 2000, 2020, 2000),
      EmaReading(2040, 2000, 1995, 2000, 1990, 2000),
      EmaReading(1990, 2000, 2005, 2000, 2010, 2000),
      EmaReading(1990, 2000, 2005, 2000, 1990, 2000),
      EmaReading(2010, 2000, 2010, 2000, 1990, 2000),
      EmaReading(2000, 2000, 2000, 2000, 2000, 2000) }

RsiReadings ==
    { RsiReading(15, 15), RsiReading(25, 25), RsiReading(85, 85), RsiReading(75, 75),
      RsiReading(50, 50), RsiReading(60, 60), RsiReading(40, 40), RsiReading(40, 30),
      RsiReading(60, 70) }

MacdReadings ==
    { MacdReading(10, 5, 4, 5, 2000), MacdReading(0 - 5, 0 - 10, 0 - 11, 0 - 10, 2000),
      MacdReading(0 - 10, 0 - 5, 0 - 4, 0 - 5, 2000), MacdReading(10, 5, 8, 5, 2000),
      MacdReading(10, 5, 12, 5, 2000), MacdReading(0, 0, 0, 0, 2000) }

\* no level; a support the price bounced off; a support out of reach; a
\* resistance that rejected the price; both
SrNoLevels == SrReading(<< >>, << >>, 2000, 1995, 2005, 1985)
SrBounce == SrReading(<< Level(1990, 3) >>, << >>, 2000, 1995, 2005, 1985)
SrStrongBounce == SrReading(<< Level(1990, 4) >>, << >>, 2000, 1995, 2005, 1985)
SrFarSupport == SrReading(<< Level(1900, 2) >>, << >>, 2000, 1995, 2005, 1985)
SrRejected == SrReading(<< >>, << Level(2010, 2) >>, 2000, 1995, 2012, 1995)
SrBoth == SrReading(<< Level(1990, 3) >>, << Level(2010, 2) >>, 2000, 1995, 2012, 1985)
SrReadings == { SrNoLevels, SrBounce, SrStrongBounce, SrFarSupport, SrRejected, SrBoth }

\* indicator.generate_signal(df) on a frame of n candles
IndicatorCall(name, n, reading) ==
    /\ signal_call' = [ op |-> "generate_signal", indicator |-> name, n |-> n,
                        reading |-> reading ]
    /\ indicator_signals' = NoSignals
    /\ signal_ret' = GenerateSignal(name, n, reading)
    /\ UNCHANGED << cfg, tsCfg, active_targets, active_stops, callVars, ghostVars,
                    updateVars, riskVars, sigCfg >>

\* the signals one indicator may hand to the fusion
VoteOptions ==
    { IndicatorSignal("hold", 0, "vote", NoMetadata),
      IndicatorSignal("buy", 640, "vote", NoMetadata),
      IndicatorSignal("sell", 480, "vote", NoMetadata) }

\* every dict of signals of some of the indicators
VotedSignals ==
    UNION { [ names -> VoteOptions ] : names \in SUBSET IndicatorNames }

\* self.fusion.fuse(signals)
FusionCall(signals) ==
    /\ signal_call' = [ op |-> "fuse" ]
    /\ indicator_signals' = signals
    /\ signal_ret' = Fuse(sigCfg.fusion_method, signals)
    /\ UNCHANGED << cfg, tsCfg, active_targets, active_stops, callVars, ghostVars,
                    updateVars, riskVars, sigCfg >>

\* the readings of a quiet market
QuietReadings ==
    Readings(EmaReading(2000, 2000, 2000, 2000, 2000, 2000), RsiReading(50, 50),
             MacdReading(0, 0, 0, 0, 2000), SrNoLevels)

\* a single-candle update: the four prices and no history
SingleCandle(pair, frame, atr, daily_pnl) ==
    CandleData("dict", pair, "ohlc", frame, 1, QuietReadings, NeutralFactor,
               NeutralFactor, 2000, atr, daily_pnl)

\* an update with a history of n candles
History(frame, n, readings, volatility_factor, volume_factor) ==
    CandleData("dict", "BTC/USDT", "candles", frame, n, readings, volatility_factor,
               volume_factor, 2000, 100, 0)

\* payloads that are no usable candle data
UnusablePayloads ==
    { CandleData("None", None, "neither", "ok", 0, QuietReadings, NeutralFactor,
                 NeutralFactor, NoneNum, NoneNum, 0),
      CandleData("list", None, "neither", "ok", 0, QuietReadings, NeutralFactor,
                 NeutralFactor, NoneNum, NoneNum, 0),
      CandleData("dict", "BTC/USDT", "neither", "ok", 0, QuietReadings, NeutralFactor,
                 NeutralFactor, NoneNum, NoneNum, 0),
      SingleCandle(None, "ok", 100, 0),
      SingleCandle("BTC/USDT", "bad_values", 100, 0),
      History("missing_columns", 1, QuietReadings, NeutralFactor, NeutralFactor),
      History("missing_columns", 0, QuietReadings, NeutralFactor, NeutralFactor),
      History("bad_values", 1, QuietReadings, NeutralFactor, NeutralFactor),
      History("bad_values", 15, QuietReadings, NeutralFactor, NeutralFactor),
      History("bad_values", 50, QuietReadings, NeutralFactor, NeutralFactor) }

SingleCandles ==
    { SingleCandle("BTC/USDT", "ok", atr, pnl) : atr \in {0, 100}, pnl \in {0 - 500, 0} }

\* histories on which some indicators speak; the strengths and the factors
\* keep the averages of the fusion and of the scorer off the rounding ties,
\* which binary floating point decides
PipelineReadings ==
    { Readings(e, r, m, s) :
        e \in { EmaReading(2008, 2000, 1995, 2000, 1990, 2000),
                EmaReading(1984, 2000, 2005, 2000, 1990, 2000),
                EmaReading(2000, 2000, 2000, 2000, 2000, 2000) },
        r \in { RsiReading(22, 22), RsiReading(50, 50) },
        m \in { MacdReading(0 - 2, 0 - 10, 0 - 11, 0 - 10, 2000),
                MacdReading(0, 0, 0, 0, 2000) },
        s \in { SrNoLevels, SrStrongBounce, SrFarSupport } }

\* (volatility factor, volume factor) of a frame of 20 candles or more
FrameFactors == { << 500, 501 >>, << 0, 301 >> }

Histories ==
    { History("ok", n, rd, f[1], f[2]) :
        n \in {20, 50}, rd \in PipelineReadings, f \in FrameFactors }

Payloads == UnusablePayloads \cup SingleCandles \cup Histories

\* signal_agent.process(candle_data)
SignalProcess(candle_data) ==
    /\ signal_call' = [ op |-> "process", candle_data |-> candle_data ]
    /\ indicator_signals' = ProcessSignals(sigCfg, candle_data)
    /\ signal_ret' = SignalAgentProcess(sigCfg, candle_data)
    /\ UNCHANGED << cfg, tsCfg, active_targets, active_stops, callVars, ghostVars,
                    updateVars, riskVars, sigCfg >>

SignalNext ==
    \/ \E n \in SeriesLengths, r \in EmaReadings : IndicatorCall("ema", n, r)
    \/ \E n \in SeriesLengths, r \in RsiReadings : IndicatorCall("rsi", n, r)
    \/ \E n \in SeriesLengths, r \in MacdReadings : IndicatorCall("macd", n, r)
    \/ \E n \in SeriesLengths, r \in SrReadings : IndicatorCall("support_resistance", n, r)
    \/ \E signals \in VotedSignals : FusionCall(signals)
    \/ \E candle_data \in Payloads : SignalProcess(candle_data)

\* a SignalAgent of any fusion method, with all indicators or none
SignalConfigs ==
    { SignalConfig(m, 500, IndicatorNames) : m \in FusionMethods }
        \cup { SignalConfig("weighted_average", 500, {}) }

SignalInit ==
    /\ cfg = [ enable_dry_run |-> TRUE, enable_trailing_stop |-> TRUE,
               max_retries |-> MaxRetriesCfg ]
    /\ tsCfg \in TrailingConfigs
    /\ InitManagers
    /\ InitCall
    /\ InitRiskAgent(TaskRiskConfig)
    /\ \E sc \in SignalConfigs : InitSignalAgent(sc)

SignalSpec == SignalInit /\ [][SignalNext]_vars

\* the payload is no usable candle data
C21_Unusable(candle_data) ==
    \/ candle_data.kind # "dict"
    \/ candle_data.pair = None
    \/ candle_data.shape = "neither"
    \/ candle_data.frame # "ok"

\* C21: SignalAgent.process never raises; for an absent or non-dict
\* payload, a missing pair, no OHLC data or a malformed series, and for any
\* internal exception, it returns a decision with action hold, confidence 0
\* and should_trade false that carries the failure reason.
C21_ProcessNeverRaises ==
    signal_call.op = "process" =>
        /\ signal_ret.kind = "decision"
        /\ (C21_Unusable(signal_call.candle_data) \/ sigCfg.enabled = {}) =>
              /\ signal_ret.action = "hold"
              /\ signal_ret.confidence = 0
              /\ ~signal_ret.should_trade
              /\ signal_ret.reasoning # "fused"

\* the minimum length of each indicator with its default periods
C22_MinimumLength(name) ==
    CASE name = "ema" -> Max(Max(EmaFastPeriod, EmaSlowPeriod), EmaSignalPeriod)
      [] name = "rsi" -> RsiPeriod + 1
      [] name = "macd" -> MacdSlowPeriod + MacdSignalPeriod
      [] name = "support_resistance" -> SrLookbackPeriod

\* C22: generate_signal of each of the four indicators (EMA, RSI, MACD,
\* Support/Resistance) on a series shorter than the indicator's minimum
\* length returns action hold with strength 0.0 and does not raise.
C22_ShortSeriesHolds ==
    (signal_call.op = "generate_signal"
        /\ signal_call.n < C22_MinimumLength(signal_call.indicator)) =>
            /\ signal_ret.action = "hold"
            /\ signal_ret.strength = 0

\* C22 witness: the EMA indicator held on 49 candles whose readings show a
\* bullish crossover
C22_Witness ==
    /\ signal_call.op = "generate_signal"
    /\ signal_call.indicator = "ema"
    /\ signal_call.n = 49
    /\ signal_call.reading.fast_ema > signal_call.reading.slow_ema
    /\ signal_call.reading.fast_ema_prev <= signal_call.reading.slow_ema_prev
    /\ signal_ret.action = "hold"
    /\ signal_ret.strength = 0

\* the number of the given signals that vote for the action
C25_Count(action) ==
    Cardinality({ name \in DOMAIN indicator_signals :
                    indicator_signals[name].action = action })

\* C25: majority_vote fusion emits buy or sell only when that action has
\* more votes than each other action and a vote share of at least
\* min_agreement (0.6); in every other case, a tie between buy and sell
\* included, it emits hold.
C25_MajorityNeedsAgreement ==
    (signal_call.op = "fuse" /\ sigCfg.fusion_method = "majority_vote") =>
        LET total == Cardinality(DOMAIN indicator_signals)
            qualifies(a) ==
                /\ \A b \in {"buy", "sell", "hold"} \ {a} : C25_Count(a) > C25_Count(b)
                /\ C25_Count(a) * 10 >= 6 * total
        IN  /\ signal_ret.action \in {"buy", "sell", "hold"}
            /\ signal_ret.action # "hold" => qualifies(signal_ret.action)
            /\ C25_Count("buy") = C25_Count("sell") => signal_ret.action = "hold"

\* C25 witness: two of three indicators voted sell and the fusion emitted
\* sell
C25_Witness ==
    /\ signal_call.op = "fuse"
    /\ sigCfg.fusion_method = "majority_vote"
    /\ Cardinality(DOMAIN indicator_signals) = 3
    /\ C25_Count("sell") = 2
    /\ C25_Count("buy") = 1
    /\ signal_ret.action = "sell"

\* ------------------------------------------------------------------------
\* The pipeline of process_candle_update: generate_signal, validate_and_size,
\* execute_order
\* ------------------------------------------------------------------------

\* the generate_signal task starts a run of the chain
PipelineSignal(candle_data) ==
    /\ pc \in {"idle", "done"}
    /\ signal_call' = [ op |-> "pipeline", candle_data |-> candle_data ]
    /\ indicator_signals' = ProcessSignals(sigCfg, candle_data)
    /\ signal_ret' = GenerateSignalTask(sigCfg, candle_data)
    /\ risk_call' = [ op |-> "init", signal |-> Signal("None", None, NoneNum, NoneNum, NoneNum),
                      candle |-> Candle("None", None, None, NoneNum, NoneNum, 0, 0, 0) ]
    /\ risk_ret' = NoRiskDecision
    /\ entry' = "task"
    /\ pc' = "risk_stage"
    /\ risk_decision' = NoDecision
    /\ retries' = 0
    /\ attempt' = 0
    /\ gw' = None
    /\ createSent' = 0
    /\ ordersPlaced' = 0
    /\ failures' = 0
    /\ lastError' = None
    /\ dryAnswer' = None
    /\ executorCalls' = 0
    /\ execution_result' = NoExecResult
    /\ result' = NoResult
    /\ taskResult' = NoResult
    /\ pre_targets' = active_targets
    /\ pre_stops' = active_stops
    /\ lastOp' = NoOp("generate_signal")
    /\ UNCHANGED << cfg, tsCfg, updateVars, riskCfg, sigCfg, managerVars, idleGhosts >>

\* the validate_and_size task hands its decision to execute_order
PipelineRisk ==
    /\ pc = "risk_stage"
    /\ risk_call' = [ op |-> "process", signal |-> RiskSignalOf(signal_ret),
                      candle |-> RiskCandleOf(signal_call.candle_data) ]
    /\ risk_ret' = ValidateAndSizeTask(riskCfg, signal_ret, signal_call.candle_data)
    /\ risk_decision' = PositionDecisionOf(risk_ret')
    /\ pc' = "task"
    /\ lastOp' = NoOp("validate_and_size")
    /\ UNCHANGED << cfg, tsCfg, updateVars, riskCfg, signalVars, managerVars, idleGhosts,
                    entry, retries, attempt, gw, createSent, ordersPlaced, failures,
                    lastError, dryAnswer, executorCalls, execution_result, result,
                    taskResult, pre_targets, pre_stops >>

\* The Risk Decision handed on is always a dict with an action, so the except
\* branch of the execute_order task is not entered.
PipelineNext ==
    \/ \E candle_data \in Payloads : PipelineSignal(candle_data)
    \/ PipelineRisk
    \/ TaskBody
    \/ TaskReturn
    \/ ProcessValidate
    \/ ExecBegin
    \/ \E answer \in {"valid", "invalid", "error", "malformed"} : DryRunReply(answer)
    \/ ExecLoop
    \/ \E placed \in BOOLEAN : GatewayCreateOrder(placed)
    \/ CreateOrderReturns
    \/ CreateOrderRaises
    \/ ProcessAfterExec

\* the agents of the three task modules, under each fusion method and each
\* stop-loss method
PipelineInit ==
    /\ cfg = [ enable_dry_run |-> TRUE, enable_trailing_stop |-> TRUE,
               max_retries |-> MaxRetriesCfg ]
    /\ tsCfg \in TrailingConfigs
    /\ InitManagers
    /\ InitCall
    /\ \E m \in {"atr", "support_resistance"} : InitRiskAgent(RiskConfig(FALSE, 500, m))
    /\ \E m \in FusionMethods : InitSignalAgent(SignalConfig(m, 500, IndicatorNames))

PipelineSpec == PipelineInit /\ [][PipelineNext]_vars

\* the run of the chain has passed the Risk Agent
C24_RiskDone == signal_call.op = "pipeline" /\ pc # "risk_stage"

\* C24: with stop_loss_method = support_resistance, when the S/R indicator
\* found a nearest support (for a buy) or a nearest resistance (for a sell),
\* the Risk Agent that receives the resulting Signal Decision places the stop
\* just beyond that level, 0.5% below the support or above the resistance,
\* instead of rejecting for a missing level.
C24_StopBeyondFoundLevel ==
    ( /\ C24_RiskDone
      /\ riskCfg.stop_loss_method = "support_resistance"
      /\ signal_ret.kind = "decision"
      /\ "support_resistance" \in DOMAIN indicator_signals ) =>
        LET metadata == indicator_signals["support_resistance"].metadata
        IN  /\ (signal_ret.action = "buy" /\ metadata.nearest_support # NoneNum) =>
                  /\ risk_ret.kind = "decision"
                  /\ risk_ret.stop_loss =
                        RoundHalfEven(metadata.nearest_support * 100 * 995, 1000)
            /\ (signal_ret.action = "sell" /\ metadata.nearest_resistance # NoneNum) =>
                  /\ risk_ret.kind = "decision"
                  /\ risk_ret.stop_loss =
                        RoundHalfEven(metadata.nearest_resistance * 100 * 1005, 1000)

\* C26: in the pipeline a Signal Decision with should_trade false never
\* leads to an order, whatever its action.
C26_NoTradeNoOrder ==
    ( /\ signal_call.op = "pipeline"
      /\ signal_ret.kind = "decision"
      /\ ~signal_ret.should_trade ) =>
        /\ executorCalls = 0
        /\ createSent = 0
        /\ ordersPlaced = 0

\* C27: a run of the pipeline from a single-candle update never submits an
\* order, under every fusion method: the indicators hold for lack of data,
\* the Signal Decision is hold, the Risk Agent rejects it and execute_order
\* returns skipped.
C27_SingleCandleNeverOrders ==
    ( /\ signal_call.op = "pipeline"
      /\ signal_call.candle_data.kind = "dict"
      /\ signal_call.candle_data.shape = "ohlc" ) =>
        /\ signal_ret.action = "hold"
        /\ executorCalls = 0
        /\ createSent = 0
        /\ ordersPlaced = 0
        /\ pc # "risk_stage" => ~risk_ret.approved
        /\ pc = "done" => taskResult = TaskSkipped

\* C27 witness: under aggressive fusion a single candle whose confidence
\* passes min_confidence went through the chain and the order was skipped
C27_Witness ==
    /\ signal_call.op = "pipeline"
    /\ signal_call.candle_data.kind = "dict"
    /\ signal_call.candle_data.shape = "ohlc"
    /\ signal_call.candle_data.frame = "ok"
    /\ signal_call.candle_data.pair # None
    /\ sigCfg.fusion_method = "aggressive"
    /\ signal_ret.should_trade
    /\ pc = "done"
    /\ taskResult = TaskSkipped

====
